---------------------------- MODULE Spec2Model ----------------------------
(***************************************************************************)
(* Model of the local asset proxy of oxide-client                          *)
(* (src/src-tauri/src/http_proxy.rs).                                      *)
(*                                                                         *)
(* Text is modelled character by character: a string is a sequence of     *)
(* one-character strings, a path is the sequence of its components as     *)
(* std::path::Path::components() yields them on a Unix target, and a u32  *)
(* is the pair <<hi, lo>> of its 16-bit halves, so that the whole range   *)
(* 0 .. 2^32-1 is kept with its width.                                    *)
(***************************************************************************)
EXTENDS Integers, Sequences, FiniteSets, TLC

VARIABLES
  disk,       \* the client folder: relative path of a file -> its bytes
  phase,      \* where prepare_proxy is
  build,      \* the locals of build_asset_map
  asset_map,  \* the asset map: key -> locator
  handlers,   \* the request handler tasks
  dec         \* the decoder on its own: input and output

vars == <<disk, phase, build, asset_map, handlers, dec>>

---------------------------------------------------------------------------
(* Characters and strings                                                  *)

CRC_EXTENSION_SEPARATOR == "_"

COMPRESSED_EXTENSION == <<"z">>

Digits == {"0", "1", "2", "3", "4", "5", "6", "7", "8", "9"}

DigitVal(c) ==
  CASE c = "0" -> 0 [] c = "1" -> 1 [] c = "2" -> 2 [] c = "3" -> 3
    [] c = "4" -> 4 [] c = "5" -> 5 [] c = "6" -> 6 [] c = "7" -> 7
    [] c = "8" -> 8 [] c = "9" -> 9

DigitChar(d) == <<"0", "1", "2", "3", "4", "5", "6", "7", "8", "9">>[d + 1]

\* The strings of length 0..n over the alphabet A.
RECURSIVE StringsUpTo(_, _)
StringsUpTo(A, n) ==
  IF n = 0 THEN {<<>>}
  ELSE LET shorter == StringsUpTo(A, n - 1)
       IN  shorter \cup {Append(s, c) : s \in shorter, c \in A}

\* str::ends_with
EndsWith(s, suffix) ==
  /\ Len(s) >= Len(suffix)
  /\ SubSeq(s, Len(s) - Len(suffix) + 1, Len(s)) = suffix

\* The positions of character c in s.
Positions(s, c) == {i \in 1..Len(s) : s[i] = c}

Max(S) == CHOOSE x \in S : \A y \in S : y <= x

---------------------------------------------------------------------------
(* u32 values, <<hi, lo>> with value hi * 2^16 + lo                        *)

Half == 65536

U32Zero == <<0, 0>>

U32Max == <<Half - 1, Half - 1>>

NoneU32 == [some |-> FALSE, v |-> U32Zero]

SomeU32(v) == [some |-> TRUE, v |-> v]

\* One step of the decimal parser: acc * 10 + d with the checked
\* arithmetic of from_str_radix (an overflow makes the parse fail).
RECURSIVE ParseDigits(_, _, _)
ParseDigits(s, i, acc) ==
  IF i > Len(s) THEN SomeU32(acc)
  ELSE IF s[i] \notin Digits THEN NoneU32
  ELSE LET lo2 == acc[2] * 10 + DigitVal(s[i])
           hi2 == acc[1] * 10 + (lo2 \div Half)
       IN  IF hi2 >= Half THEN NoneU32
           ELSE ParseDigits(s, i + 1, <<hi2, lo2 % Half>>)

\* str::parse::<u32>: an optional leading "+", then one or more decimal
\* digits whose value fits 32 bits.
parse_u32(s) ==
  LET digits == IF Len(s) > 0 /\ s[1] = "+" THEN Tail(s) ELSE s
  IN  IF Len(digits) = 0 THEN NoneU32 ELSE ParseDigits(digits, 1, U32Zero)

RECURSIVE ToDecimal(_)
ToDecimal(v) ==
  IF v = U32Zero THEN <<>>
  ELSE LET t == (v[1] % 10) * Half + v[2]
       IN  Append(ToDecimal(<<v[1] \div 10, t \div 10>>), DigitChar(t % 10))

\* u32::to_string: the decimal digits without sign or leading zeros.
u32_to_string(v) == IF v = U32Zero THEN <<"0">> ELSE ToDecimal(v)

---------------------------------------------------------------------------
(* Bytes                                                                   *)

\* The characters the model writes, with their ASCII codes.
CharCodes ==
  << <<"/", 47>>, <<".", 46>>, <<"_", 95>>, <<":", 58>>, <<"+", 43>>,
     <<"-", 45>>, <<"=", 61>>, <<"?", 63>>,
     <<"0", 48>>, <<"1", 49>>, <<"2", 50>>, <<"3", 51>>, <<"4", 52>>,
     <<"5", 53>>, <<"6", 54>>, <<"7", 55>>, <<"8", 56>>, <<"9", 57>>,
     <<"a", 97>>, <<"b", 98>>, <<"c", 99>>, <<"d", 100>>, <<"e", 101>>,
     <<"f", 102>>, <<"h", 104>>, <<"i", 105>>, <<"k", 107>>, <<"l", 108>>,
     <<"m", 109>>, <<"n", 110>>, <<"o", 111>>, <<"p", 112>>, <<"r", 114>>,
     <<"s", 115>>, <<"t", 116>>, <<"u", 117>>, <<"v", 118>>, <<"w", 119>>,
     <<"x", 120>>, <<"y", 121>>, <<"z", 122>> >>

\* A byte sequence that is not valid UTF-8 decodes to no string; a name of
\* the file system that is not valid UTF-8 holds this character.
BadChar == "<ff>"

BadByte == 255

Ord(c) ==
  IF c = BadChar THEN BadByte
  ELSE CharCodes[CHOOSE i \in DOMAIN CharCodes : CharCodes[i][1] = c][2]

Chr(b) ==
  IF \E i \in DOMAIN CharCodes : CharCodes[i][2] = b
  THEN CharCodes[CHOOSE i \in DOMAIN CharCodes : CharCodes[i][2] = b][1]
  ELSE BadChar

\* str::as_bytes
AsBytes(s) == [i \in 1..Len(s) |-> Ord(s[i])]

\* String::from_utf8, for the bytes the model writes.
FromBytes(bytes) == [i \in 1..Len(bytes) |-> Chr(bytes[i])]

ValidUtf8(s) == \A i \in 1..Len(s) : s[i] # BadChar

\* The bitwise exclusive or of two n-bit numbers.
RECURSIVE Xor(_, _, _)
Xor(a, b, n) ==
  IF n = 0 THEN 0
  ELSE ((a + b) % 2) + 2 * Xor(a \div 2, b \div 2, n - 1)

\* crc32fast::hash: CRC-32 (IEEE, reflected polynomial 0xEDB88320), bit by
\* bit on a u32 kept as <<hi, lo>>.
RECURSIVE Crc32Shift(_, _)
Crc32Shift(crc, n) ==
  IF n = 0 THEN crc
  ELSE LET shifted == <<crc[1] \div 2, (crc[2] \div 2) + (crc[1] % 2) * 32768>>
           next == IF crc[2] % 2 = 1
                   THEN <<Xor(shifted[1], 60856, 16), Xor(shifted[2], 33568, 16)>>
                   ELSE shifted
       \* (the test makes TLC compute next before the following round)
       IN  IF next \in {} THEN next ELSE Crc32Shift(next, n - 1)

RECURSIVE Crc32Update(_, _, _)
Crc32Update(crc, bytes, i) ==
  IF i > Len(bytes) THEN crc
  ELSE LET next == Crc32Shift(<<crc[1], Xor(crc[2], bytes[i], 16)>>, 8)
       IN  IF next \in {} THEN next ELSE Crc32Update(next, bytes, i + 1)

crc32(bytes) ==
  LET r == Crc32Update(<<Half - 1, Half - 1>>, bytes, 1)
  IN  <<Half - 1 - r[1], Half - 1 - r[2]>>

---------------------------------------------------------------------------
(* Paths: sequences of components                                          *)

RootDir == <<"/">>

CurDir == <<".">>

ParentDir == <<".", ".">>

\* matches!(component, Component::Normal(_))
IsNormal(component) == component \notin {RootDir, CurDir, ParentDir}

\* Path::file_name: the last component when it is a normal one.
HasFileName(path) == Len(path) > 0 /\ IsNormal(path[Len(path)])

FileName(path) == path[Len(path)]

\* rsplit_file_at_dot: <<stem, has extension, extension>> of a file name.
\* A name without "." or whose only "." is its first character has no
\* extension.
SplitFileAtDot(name) ==
  LET dots == Positions(name, ".")
  IN  IF dots = {} \/ Max(dots) = 1
      THEN [stem |-> name, hasExt |-> FALSE, ext |-> <<>>]
      ELSE [stem |-> SubSeq(name, 1, Max(dots) - 1), hasExt |-> TRUE,
            ext |-> SubSeq(name, Max(dots) + 1, Len(name))]

\* Path::extension
HasExtension(path) == HasFileName(path) /\ SplitFileAtDot(FileName(path)).hasExt

Extension(path) == SplitFileAtDot(FileName(path)).ext

\* Path::with_extension: the file name becomes stem, "." and the new
\* extension (the stem alone for an empty extension); a path without file
\* name is returned as it is.
WithExtension(path, ext) ==
  IF ~HasFileName(path) THEN path
  ELSE LET stem == SplitFileAtDot(FileName(path)).stem
       IN  [path EXCEPT ![Len(path)] =
              IF ext = <<>> THEN stem ELSE stem \o <<".">> \o ext]

\* Path::with_file_name
WithFileName(path, name) ==
  IF Len(path) = 0 THEN <<name>> ELSE [path EXCEPT ![Len(path)] = name]

\* The string of a path split at "/".
RECURSIVE Segments(_)
Segments(s) ==
  IF Positions(s, "/") = {} THEN <<s>>
  ELSE LET k == CHOOSE i \in Positions(s, "/") :
                  \A j \in Positions(s, "/") : i <= j
       IN  <<SubSeq(s, 1, k - 1)>> \o Segments(SubSeq(s, k + 1, Len(s)))

RECURSIVE KeptSegments(_, _, _)
KeptSegments(segs, i, has_root) ==
  IF i > Len(segs) THEN <<>>
  ELSE (IF segs[i] = <<>> \/ (segs[i] = CurDir /\ (i > 1 \/ has_root))
        THEN <<>> ELSE <<segs[i]>>)
       \o KeptSegments(segs, i + 1, has_root)

\* Path::components of PathBuf::from(s): a leading "/" is the root, empty
\* segments and "." segments other than a leading one disappear, ".." is
\* the parent directory, everything else a normal component.
Components(s) ==
  LET has_root == Len(s) > 0 /\ s[1] = "/"
  IN  (IF has_root THEN <<RootDir>> ELSE <<>>)
      \o KeptSegments(Segments(s), 1, has_root)

\* Path::to_str of a relative path of normal components, "/" between them.
RECURSIVE PathString(_)
PathString(path) ==
  IF Len(path) = 0 THEN <<>>
  ELSE IF Len(path) = 1 THEN path[1]
  ELSE path[1] \o <<"/">> \o PathString(Tail(path))

---------------------------------------------------------------------------
(* URL decoder                                                             *)

\* str::rsplit_once(CRC_EXTENSION_SEPARATOR)
HasSeparator(s) == Positions(s, CRC_EXTENSION_SEPARATOR) # {}

RSplitLeft(s) == SubSeq(s, 1, Max(Positions(s, CRC_EXTENSION_SEPARATOR)) - 1)

RSplitRight(s) ==
  SubSeq(s, Max(Positions(s, CRC_EXTENSION_SEPARATOR)) + 1, Len(s))

\* The second half of decompose_extension: the ".z" step.
StripCompressed(non_crc_asset_name, crc) ==
  LET compressed == /\ HasExtension(non_crc_asset_name)
                    /\ Extension(non_crc_asset_name) = COMPRESSED_EXTENSION
  IN  [name |-> IF compressed THEN WithExtension(non_crc_asset_name, <<>>)
                ELSE non_crc_asset_name,
       compress |-> compressed,
       crc |-> crc]

\* A decoder that strips ".z" before it looks for the CRC suffix.
decompose_extension_z_first(asset_name) ==
  LET z == StripCompressed(asset_name, NoneU32)
  IN  IF HasExtension(z.name) /\ HasSeparator(Extension(z.name))
      THEN [z EXCEPT !.name = WithExtension(z.name, RSplitLeft(Extension(z.name))),
                     !.crc = parse_u32(RSplitRight(Extension(z.name)))]
      ELSE z

decompose_extension(asset_name) ==
  IF HasExtension(asset_name) /\ HasSeparator(Extension(asset_name))
  THEN StripCompressed(WithExtension(asset_name, RSplitLeft(Extension(asset_name))),
                       parse_u32(RSplitRight(Extension(asset_name))))
  ELSE StripCompressed(asset_name, NoneU32)

\* The decoder's output before it has run.
NoOutput == [name |-> <<>>, compress |-> FALSE, crc |-> NoneU32]

\* str::parse::<u16>
parse_u16_ok(s) == parse_u32(s).some /\ parse_u32(s).v[1] = 0

\* A name hash of any length.
is_name_hash_any_length(component) == parse_u16_ok(component)

is_name_hash(component) ==
  /\ Len(component) = 3
  /\ ValidUtf8(component)
  /\ parse_u16_ok(component)

\* The asset name asset_handler passes on: the components of the matched
\* path without a leading name hash.
AssetName(asset) ==
  LET components == Components(asset)
  IN  IF Len(components) > 0 /\ is_name_hash(components[1])
      THEN Tail(components)
      ELSE components

\* retrieve_asset's path check with the parent directory as the only
\* component refused.
is_invalid_path_parent_only(asset_name) ==
  \E i \in 1..Len(asset_name) : asset_name[i] = ParentDir

\* retrieve_asset's path check.
is_invalid_path(asset_name) ==
  \E i \in 1..Len(asset_name) : ~IsNormal(asset_name[i])

---------------------------------------------------------------------------
(* Compressed envelope                                                     *)

COMPRESSED_MAGIC == <<161, 178, 195, 212>>

\* AsyncWriteExt::write_u32: four bytes, big-endian.
U32Bytes(v) == <<v[1] \div 256, v[1] % 256, v[2] \div 256, v[2] % 256>>

\* A length as u32.
LenU32(n) == <<(n \div Half) % Half, n % Half>>

RECURSIVE ByteSum(_)
ByteSum(bytes) ==
  IF Len(bytes) = 0 THEN 0 ELSE bytes[1] + ByteSum(Tail(bytes))

\* miniz_oxide's zlib stream, reduced to its framing: the two header bytes,
\* one block holding the length, its complement and the bytes themselves,
\* and a checksum of the bytes.
ZlibHeader == <<120, 156>>

ZlibChecksum(bytes) == (1 + ByteSum(bytes)) % 251

compress_to_vec_zlib(bytes) ==
  ZlibHeader \o <<Len(bytes), 255 - Len(bytes)>> \o bytes
             \o <<ZlibChecksum(bytes)>>

ZlibValid(stream) ==
  /\ Len(stream) >= 5
  /\ SubSeq(stream, 1, 2) = ZlibHeader
  /\ stream[3] + stream[4] = 255
  /\ Len(stream) = stream[3] + 5
  /\ stream[Len(stream)] = ZlibChecksum(SubSeq(stream, 5, Len(stream) - 1))

decompress_to_vec_zlib(stream) ==
  IF ZlibValid(stream)
  THEN [ok |-> TRUE, data |-> SubSeq(stream, 5, Len(stream) - 1)]
  ELSE [ok |-> FALSE, data |-> <<>>]

\* A decompressor that takes the header for the magic number alone.
decompress_asset_response_short_header(file_data) ==
  IF Len(file_data) > 4
  THEN decompress_to_vec_zlib(SubSeq(file_data, 5, Len(file_data)))
  ELSE [ok |-> FALSE, data |-> <<>>]

decompress_asset_response(file_data) ==
  IF Len(file_data) > 8
  THEN decompress_to_vec_zlib(SubSeq(file_data, 9, Len(file_data)))
  ELSE [ok |-> FALSE, data |-> <<>>]

\* The body build_local_asset_response makes of the bytes it read.
Envelope(file_buffer, compress) ==
  IF compress
  THEN COMPRESSED_MAGIC \o U32Bytes(LenU32(Len(file_buffer)))
                        \o compress_to_vec_zlib(file_buffer)
  ELSE file_buffer

---------------------------------------------------------------------------
(* Pack reader                                                             *)

ToNat(v) == v[1] * Half + v[2]

\* AsyncReadExt::read_u32 at byte offset pos (big-endian).
CanRead(bytes, pos, n) == pos + n <= Len(bytes)

ReadU32(bytes, pos) ==
  <<bytes[pos + 1] * 256 + bytes[pos + 2], bytes[pos + 3] * 256 + bytes[pos + 4]>>

PackError(kind) == [err |-> kind, pos |-> 0, assets |-> <<>>]

\* Entries read with names taken as they come, valid UTF-8 or not.
RECURSIVE ReadEntriesLossy(_, _, _, _)
ReadEntriesLossy(bytes, pos, n, results) ==
  IF n = 0 THEN [err |-> "none", pos |-> pos, assets |-> results]
  ELSE IF ~CanRead(bytes, pos, 4) THEN PackError("UnexpectedEof")
  ELSE LET name_len == ToNat(ReadU32(bytes, pos))
           name_end == pos + 4 + name_len
       IN  IF ~CanRead(bytes, pos + 4, name_len + 12)
           THEN PackError("UnexpectedEof")
           ELSE ReadEntriesLossy(bytes, name_end + 12, n - 1,
                  Append(results,
                    [name |-> FromBytes(SubSeq(bytes, pos + 5, name_end)),
                     data_offset |-> ToNat(ReadU32(bytes, name_end)),
                     size |-> ToNat(ReadU32(bytes, name_end + 4)),
                     crc |-> ReadU32(bytes, name_end + 8)]))

\* The entries of one group: `n` directory entries from offset pos.
RECURSIVE ReadEntries(_, _, _, _)
ReadEntries(bytes, pos, n, results) ==
  IF n = 0 THEN [err |-> "none", pos |-> pos, assets |-> results]
  ELSE IF ~CanRead(bytes, pos, 4) THEN PackError("UnexpectedEof")
  ELSE LET name_len == ToNat(ReadU32(bytes, pos))
           name_end == pos + 4 + name_len
       IN  IF ~CanRead(bytes, pos + 4, name_len) THEN PackError("UnexpectedEof")
           ELSE LET name == FromBytes(SubSeq(bytes, pos + 5, name_end))
                IN  IF ~ValidUtf8(name) THEN PackError("InvalidData")
                    ELSE IF ~CanRead(bytes, name_end, 12)
                    THEN PackError("UnexpectedEof")
                    ELSE ReadEntries(bytes, name_end + 12, n - 1,
                           Append(results,
                             [name |-> name,
                              data_offset |-> ToNat(ReadU32(bytes, name_end)),
                              size |-> ToNat(ReadU32(bytes, name_end + 4)),
                              crc |-> ReadU32(bytes, name_end + 8)]))

\* The loop of list_assets_in_pack from the group at offset pos.
RECURSIVE ReadGroups(_, _, _)
ReadGroups(bytes, pos, results) ==
  IF ~CanRead(bytes, pos, 8) THEN PackError("UnexpectedEof")
  ELSE LET next_group_offset == ToNat(ReadU32(bytes, pos))
           files_in_group == ToNat(ReadU32(bytes, pos + 4))
           group == ReadEntries(bytes, pos + 8, files_in_group, results)
       IN  IF group.err # "none" THEN group
           ELSE IF next_group_offset = 0 THEN group
           ELSE ReadGroups(bytes, next_group_offset, group.assets)

list_assets_in_pack(bytes) == ReadGroups(bytes, 0, <<>>)

---------------------------------------------------------------------------
(* Upstream URLs (url::Url::join)                                          *)

HTTP == <<"h", "t", "t", "p">>

HTTPS == <<"h", "t", "t", "p", "s">>

SpecialSchemes ==
  {HTTP, HTTPS, <<"w", "s">>, <<"w", "s", "s">>, <<"f", "t", "p">>,
   <<"f", "i", "l", "e">>}

Letters == {"a", "b", "c", "d", "e", "f", "h", "i", "k", "l", "m", "n", "o",
            "p", "r", "s", "t", "u", "v", "w", "x", "y", "z"}

SchemeChars == Letters \cup Digits \cup {"+", "-", "."}

NoQuery == <<"<none>">>

BadUrl == [ok |-> FALSE, scheme |-> <<>>, host |-> <<>>, path |-> <<>>,
           query |-> NoQuery]

MakeUrl(scheme, host, path, query) ==
  [ok |-> TRUE, scheme |-> scheme, host |-> host, path |-> path,
   query |-> query]

Min(S) == CHOOSE x \in S : \A y \in S : x <= y

\* The position of the ":" that ends a scheme at the start of s, or 0.
SchemeEnd(s) ==
  LET colons == Positions(s, ":")
  IN  IF /\ colons # {}
         /\ Min(colons) > 1
         /\ s[1] \in Letters
         /\ \A i \in 2..(Min(colons) - 1) : s[i] \in SchemeChars
      THEN Min(colons) ELSE 0

\* The number of "/" at the start of s.
RECURSIVE LeadingSlashes(_)
LeadingSlashes(s) ==
  IF Len(s) > 0 /\ s[1] = "/" THEN 1 + LeadingSlashes(Tail(s)) ELSE 0

\* The part of s before its first "?", and the query after it.
PathPart(s) ==
  IF Positions(s, "?") = {} THEN s
  ELSE SubSeq(s, 1, Min(Positions(s, "?")) - 1)

QueryPart(s) ==
  IF Positions(s, "?") = {} THEN NoQuery
  ELSE SubSeq(s, Min(Positions(s, "?")) + 1, Len(s))

\* The "." and ".." segments of a URL path resolved.
RECURSIVE RemoveDotSegments(_, _, _)
RemoveDotSegments(segs, i, out) ==
  IF i > Len(segs) THEN out
  ELSE LET last == i = Len(segs)
       IN  IF segs[i] = CurDir
           THEN RemoveDotSegments(segs, i + 1,
                  IF last THEN Append(out, <<>>) ELSE out)
           ELSE IF segs[i] = ParentDir
           THEN LET popped == IF Len(out) > 0
                              THEN SubSeq(out, 1, Len(out) - 1) ELSE out
                IN  RemoveDotSegments(segs, i + 1,
                      IF last THEN Append(popped, <<>>) ELSE popped)
           ELSE RemoveDotSegments(segs, i + 1, Append(out, segs[i]))

\* A path-absolute string "/a/b" normalised.
NormalPath(path) ==
  <<"/">> \o PathString(RemoveDotSegments(Segments(Tail(path)), 1, <<>>))

\* The directory of a URL path: up to and with its last "/".
UrlDir(path) == SubSeq(path, 1, Max(Positions(path, "/")))

\* host[:port] followed by a path, after the "//" of a special scheme.
ParseAuthority(scheme, rest, query) ==
  LET slashes == Positions(rest, "/")
      authority == IF slashes = {} THEN rest
                   ELSE SubSeq(rest, 1, Min(slashes) - 1)
      path == IF slashes = {} THEN <<"/">>
              ELSE SubSeq(rest, Min(slashes), Len(rest))
      colons == Positions(authority, ":")
      host == IF colons = {} THEN authority
              ELSE SubSeq(authority, 1, Max(colons) - 1)
      port == IF colons = {} THEN <<>>
              ELSE SubSeq(authority, Max(colons) + 1, Len(authority))
  IN  IF host = <<>> THEN BadUrl
      ELSE IF port # <<>> /\ ~parse_u16_ok(port) THEN BadUrl
      ELSE IF port # <<>> /\ port[1] = "+" THEN BadUrl
      ELSE MakeUrl(scheme, authority, NormalPath(path), query)

\* A reference without scheme resolved against base.
ParseRelative(base, input, query) ==
  IF LeadingSlashes(input) >= 2
  THEN ParseAuthority(base.scheme,
                      SubSeq(input, LeadingSlashes(input) + 1, Len(input)),
                      query)
  ELSE IF LeadingSlashes(input) = 1
  THEN MakeUrl(base.scheme, base.host, NormalPath(input), query)
  ELSE MakeUrl(base.scheme, base.host,
               NormalPath(UrlDir(base.path) \o input), query)

\* Url::join: input parsed as a URL reference against base. An input
\* that starts with a scheme is a URL of its own, unless the scheme is the
\* special scheme of base and fewer than two "/" follow it.
UrlJoin(base, input) ==
  LET path == PathPart(input)
      query == QueryPart(input)
      k == SchemeEnd(path)
      scheme == SubSeq(path, 1, k - 1)
      rest == SubSeq(path, k + 1, Len(path))
  IN  IF ~base.ok THEN BadUrl
      ELSE IF k = 0 THEN ParseRelative(base, path, query)
      ELSE IF scheme \in SpecialSchemes
      THEN IF LeadingSlashes(rest) < 2 /\ scheme = base.scheme
           THEN ParseRelative(base, rest, query)
           ELSE ParseAuthority(scheme,
                  SubSeq(rest, LeadingSlashes(rest) + 1, Len(rest)), query)
      ELSE MakeUrl(scheme, <<>>, rest, query)

\* The origin: the game server URL the host hands to prepare_proxy.
GameServerUrl == MakeUrl(HTTPS, <<"o">>, <<"/">>, NoQuery)

ASSETS_DIR == <<"a", "s", "s", "e", "t", "s", "/">>

\* The URL request_remote_asset fetches for path_and_query.
RemoteUrl(path_and_query) ==
  UrlJoin(UrlJoin(GameServerUrl, ASSETS_DIR), path_and_query)

\* reqwest sends http and https URLs only.
Sendable(url) == url.ok /\ url.scheme \in {HTTP, HTTPS}

---------------------------------------------------------------------------
(* Asset map                                                               *)

MANIFEST_CRC_FILE_NAME ==
  <<"m", "a", "n", "i", "f", "e", "s", "t", ".", "c", "r", "c">>

MANIFEST_FILE_NAME ==
  <<"m", "a", "n", "i", "f", "e", "s", "t", ".", "t", "x", "t">>

COMPRESSED_MANIFEST_FILE_NAME == MANIFEST_FILE_NAME \o <<".", "z">>

MANIFEST_SUFFIX == <<"_">> \o MANIFEST_FILE_NAME

PACK_EXTENSION == <<"p", "a", "c", "k">>

MemoryLocator(crc, data) ==
  [crc |-> crc, kind |-> "Memory", data |-> data,
   path |-> <<>>, data_offset |-> 0, size |-> 0]

FileLocator(crc, path, data_offset, size) ==
  [crc |-> crc, kind |-> "File", data |-> <<>>,
   path |-> path, data_offset |-> data_offset, size |-> size]

EmptyMap == [key \in {} |-> MemoryLocator(U32Zero, <<>>)]

\* HashMap::insert
MapInsert(map, key, locator) ==
  [k \in DOMAIN map \cup {key} |-> IF k = key THEN locator ELSE map[k]]

\* A fold that overwrites what the map holds.
MapEntryOrInsertOverwriting(map, key, locator) == MapInsert(map, key, locator)

\* HashMap::entry(key).or_insert(locator)
MapEntryOrInsert(map, key, locator) ==
  IF key \in DOMAIN map THEN map ELSE MapInsert(map, key, locator)

\* file_name_ends_with
file_name_ends_with(path, suffix) ==
  /\ HasFileName(path)
  /\ ValidUtf8(FileName(path))
  /\ EndsWith(FileName(path), suffix)

\* Path::to_str
PathIsUtf8(path) == \A i \in 1..Len(path) : ValidUtf8(path[i])

---------------------------------------------------------------------------
(* Upstream answers                                                        *)

\* What a GET can end in: a response with a status and a body, a response
\* whose body cannot be read, or an error without status.
Response(status, body) == [kind |-> "response", status |-> status, body |-> body]

BodyError(status) == [kind |-> "body_error", status |-> status, body |-> <<>>]

NetworkError == [kind |-> "error", status |-> 0, body |-> <<>>]

OK == 200

BAD_REQUEST == 400

INTERNAL_SERVER_ERROR == 500

RemoteOk(bytes) == [ok |-> TRUE, status |-> OK, data |-> bytes]

RemoteErr(status) == [ok |-> FALSE, status |-> status, data |-> <<>>]

\* Every answer that is not a 200 turned into a 500.
RemoteResultAlways500(reply) ==
  IF reply.kind = "response" /\ reply.status = OK THEN RemoteOk(reply.body)
  ELSE RemoteErr(INTERNAL_SERVER_ERROR)

\* The body of every response kept, whatever its status.
RemoteResultVerbatim(reply) ==
  IF reply.kind = "response"
  THEN [ok |-> reply.status = OK, status |-> reply.status, data |-> reply.body]
  ELSE RemoteErr(INTERNAL_SERVER_ERROR)

\* The result of request_remote_asset once its GET has ended in reply.
RemoteResult(reply) ==
  IF reply.kind = "response"
  THEN IF reply.status = OK THEN RemoteOk(reply.body)
       ELSE RemoteErr(reply.status)
  ELSE RemoteErr(INTERNAL_SERVER_ERROR)

---------------------------------------------------------------------------
(* Client folders                                                          *)

\* One directory entry of a pack, and one group of a pack.
PackEntry(name, data_offset, size, crc) ==
  U32Bytes(LenU32(Len(name))) \o AsBytes(name) \o U32Bytes(LenU32(data_offset))
    \o U32Bytes(LenU32(size)) \o U32Bytes(crc)

PackGroup(next_group_offset, files_in_group, entries) ==
  U32Bytes(LenU32(next_group_offset)) \o U32Bytes(LenU32(files_in_group))
    \o entries

LogoKey == << <<"u">>, <<"l", ".", "d">> >>

LogoBytes == <<65, 65>>

\* w.pack: one group of three entries (21 bytes each), then the bodies
\* DE AD BE EF from offset 71. The entry m/x.b ends past the end of the file.
WorldPack ==
  PackGroup(0, 3,
    PackEntry(<<"u", "/", "l", ".", "d">>, 71, 2, <<1, 1>>)
    \o PackEntry(<<"m", "/", "a", ".", "b">>, 73, 2, <<0, 9>>)
    \o PackEntry(<<"m", "/", "x", ".", "b">>, 74, 4, <<0, 5>>))
  \o <<222, 173, 190, 239>>

\* e.pack: a chain of two groups. The first (29 bytes) holds m/a.b, its
\* body follows at offset 29, the second group starts at offset 31 and
\* holds entries named as the manifest pair of directory d, and m/a.b once
\* more with another slice and CRC.
ExtraPack ==
  PackGroup(31, 1, PackEntry(<<"m", "/", "a", ".", "b">>, 29, 2, <<0, 3>>))
  \o <<1, 2>>
  \o PackGroup(0, 3,
       PackEntry(<<"d", "/">> \o MANIFEST_FILE_NAME, 29, 1, <<0, 4>>)
       \o PackEntry(<<"d", "/">> \o MANIFEST_CRC_FILE_NAME, 30, 1, <<0, 6>>)
       \o PackEntry(<<"m", "/", "a", ".", "b">>, 30, 1, <<0, 7>>))

\* r.pack: an entry with the key of the loose file l.d of the same folder,
\* an entry whose name leaves the folder and an entry named manifest.crc;
\* the directory takes 75 bytes and one body byte follows it.
RootPack ==
  PackGroup(0, 3,
    PackEntry(<<"l", ".", "d">>, 75, 1, <<0, 8>>)
    \o PackEntry(<<".", ".", "/", "s">>, 75, 1, <<0, 2>>)
    \o PackEntry(MANIFEST_CRC_FILE_NAME, 75, 1, <<0, 1>>))
  \o <<7>>

FolderA ==
  [path \in { LogoKey,
              << <<"w", "."  >> \o PACK_EXTENSION >>,
              << <<"e", "."  >> \o PACK_EXTENSION >>,
              << <<"d">>, <<"f">> \o MANIFEST_SUFFIX >>,
              << <<"d">>, <<"g">> \o MANIFEST_SUFFIX >>,
              << <<"d">>, MANIFEST_FILE_NAME >> } |->
     CASE path = LogoKey -> LogoBytes
       [] path = << <<"w", ".">> \o PACK_EXTENSION >> -> WorldPack
       [] path = << <<"e", ".">> \o PACK_EXTENSION >> -> ExtraPack
       [] path = << <<"d">>, <<"f">> \o MANIFEST_SUFFIX >> -> <<76>>
       [] path = << <<"d">>, <<"g">> \o MANIFEST_SUFFIX >> -> <<77>>
       [] path = << <<"d">>, MANIFEST_FILE_NAME >> -> <<88>>]

\* A folder with a loose file and a pack side by side, a stray manifest.crc,
\* a manifest in a directory whose name is not valid UTF-8 and a file whose
\* name ends with _manifest.txt without being valid UTF-8.
FolderB ==
  [path \in { << <<"l", ".", "d">> >>,
              << <<"r", ".">> \o PACK_EXTENSION >>,
              << MANIFEST_CRC_FILE_NAME >>,
              << <<BadChar>> \o MANIFEST_SUFFIX >>,
              << <<BadChar>>, <<"h">> \o MANIFEST_SUFFIX >> } |->
     CASE path = << <<"l", ".", "d">> >> -> <<66>>
       [] path = << <<"r", ".">> \o PACK_EXTENSION >> -> RootPack
       [] path = << MANIFEST_CRC_FILE_NAME >> -> <<89>>
       [] path = << <<BadChar>> \o MANIFEST_SUFFIX >> -> <<79>>
       [] path = << <<BadChar>>, <<"h">> \o MANIFEST_SUFFIX >> -> <<78>>]

\* FolderA with a single manifest in d and no stray manifest.txt: a loose
\* file, two packs that share a key, and one manifest to merge.
FolderC ==
  [path \in DOMAIN FolderA \ {<< <<"d">>, <<"g">> \o MANIFEST_SUFFIX >>,
                              << <<"d">>, MANIFEST_FILE_NAME >>} |->
     FolderA[path]]

Folders == {FolderA, FolderB}

---------------------------------------------------------------------------
(* Directory walker                                                        *)

\* The sequences without repetition of all elements of S.
RECURSIVE Perms(_)
Perms(S) ==
  IF S = {} THEN {<<>>}
  ELSE UNION {{<<x>> \o p : p \in Perms(S \ {x})} : x \in S}

\* The entries of directory dir of folder: the files in it and its
\* sub-directories (the directories are the proper prefixes of the files).
DirEntries(folder, dir) ==
  {SubSeq(path, 1, Len(dir) + 1) :
     path \in {q \in DOMAIN folder :
                 Len(q) > Len(dir) /\ SubSeq(q, 1, Len(dir)) = dir}}

IsDir(folder, path) == path \notin DOMAIN folder

RECURSIVE SelectEntries(_, _, _)
SelectEntries(folder, entries, dirs) ==
  IF Len(entries) = 0 THEN <<>>
  ELSE (IF IsDir(folder, entries[1]) = dirs THEN <<entries[1]>> ELSE <<>>)
       \o SelectEntries(folder, Tail(entries), dirs)

\* list_files: the lists a breadth-first walk can return, one for every
\* order in which read_dir can yield the entries of each directory.
RECURSIVE Walk(_, _, _)
Walk(folder, directories, files) ==
  IF Len(directories) = 0 THEN {files}
  ELSE UNION { Walk(folder,
                    Tail(directories) \o SelectEntries(folder, entries, TRUE),
                    files \o SelectEntries(folder, entries, FALSE)) :
               entries \in Perms(DirEntries(folder, Head(directories))) }

list_files(folder) == Walk(folder, << <<>> >>, <<>>)

---------------------------------------------------------------------------
(* build_asset_map                                                         *)

NoBuild ==
  [files |-> <<>>, i |-> 1, tasks |-> <<>>, k |-> 1,
   merges |-> [key \in {} |-> 0], err |-> "none"]

\* The bodies upstream can answer the fetch of a manifest with: a valid
\* envelope of "R", an envelope cut short, an envelope whose zlib stream is
\* damaged, and the other ways a GET can end.
RemoteManifest == <<82>>

ManifestReplies ==
  { Response(OK, Envelope(RemoteManifest, TRUE)),
    Response(OK, <<1, 2, 3>>),
    Response(OK, COMPRESSED_MAGIC \o <<0, 0, 0, 1, 120, 156, 1, 254, 82, 0>>),
    Response(404, Envelope(RemoteManifest, TRUE)),
    BodyError(OK),
    NetworkError }

InLoosePass == phase = "loose" /\ build.i <= Len(build.files)

CurrentFile == build.files[build.i]

IsPack(path) == HasExtension(path) /\ Extension(path) = PACK_EXTENSION

IsManifestTxt(path) == HasFileName(path) /\ FileName(path) = MANIFEST_FILE_NAME

IsManifest(path) == file_name_ends_with(path, MANIFEST_SUFFIX)

Fail(kind) ==
  /\ phase' = "failed"
  /\ build' = [NoBuild EXCEPT !.err = kind]
  /\ asset_map' = EmptyMap

\* prepare_proxy calls build_asset_map, which walks the client folder.
ListFiles ==
  /\ phase = "start"
  /\ \E files \in list_files(disk) :
       build' = [NoBuild EXCEPT !.files = files]
  /\ phase' = "loose"
  /\ UNCHANGED <<disk, asset_map, handlers, dec>>

\* read_dir fails: the walk ends with the error.
ListFilesFails ==
  /\ phase = "start"
  /\ Fail("Io")
  /\ UNCHANGED <<disk, handlers, dec>>

\* A pack: a reader task is spawned for it.
SpawnPackReader ==
  /\ InLoosePass
  /\ IsPack(CurrentFile)
  /\ build' = [build EXCEPT
       !.i = @ + 1,
       !.tasks = Append(@, [path |-> CurrentFile, state |-> "spawned",
                            result |-> PackError("none")])]
  /\ UNCHANGED <<disk, phase, asset_map, handlers, dec>>

\* A file named manifest.txt indexed like any other loose file.
IndexManifestTxt ==
  /\ InLoosePass
  /\ ~IsPack(CurrentFile)
  /\ IsManifestTxt(CurrentFile)
  /\ asset_map' = MapInsert(asset_map, CurrentFile,
       FileLocator(crc32(disk[CurrentFile]), CurrentFile, 0,
                   Len(disk[CurrentFile])))
  /\ build' = [build EXCEPT !.i = @ + 1]
  /\ UNCHANGED <<disk, phase, handlers, dec>>

\* A file named manifest.txt is passed over.
SkipManifestTxt ==
  /\ InLoosePass
  /\ ~IsPack(CurrentFile)
  /\ IsManifestTxt(CurrentFile)
  /\ build' = [build EXCEPT !.i = @ + 1]
  /\ UNCHANGED <<disk, phase, asset_map, handlers, dec>>

\* read(&path) fails.
ReadFileFails ==
  /\ InLoosePass
  /\ ~IsPack(CurrentFile)
  /\ ~IsManifestTxt(CurrentFile)
  /\ Fail("Io")
  /\ UNCHANGED <<disk, handlers, dec>>

\* A fetch that takes a body it cannot decompress for an empty one.
ManifestFetchTolerant(path, reply) ==
  LET compressed_manifest_path == WithFileName(path, COMPRESSED_MANIFEST_FILE_NAME)
      url == RemoteUrl(PathString(compressed_manifest_path))
      usable == /\ PathIsUtf8(compressed_manifest_path)
                /\ Sendable(url)
                /\ RemoteResult(reply).ok
                /\ decompress_asset_response(RemoteResult(reply).data).ok
  IN  [requested |-> PathIsUtf8(compressed_manifest_path) /\ Sendable(url),
       url |-> url, reply |-> reply, ok |-> TRUE,
       remote |-> IF usable
                  THEN decompress_asset_response(RemoteResult(reply).data).data
                  ELSE <<>>]

\* What the remote side adds to the manifest at path when its GET, if one
\* is sent, ends in reply: the fetch and its decompression.
ManifestFetch(path, reply) ==
  LET compressed_manifest_path == WithFileName(path, COMPRESSED_MANIFEST_FILE_NAME)
      url == RemoteUrl(PathString(compressed_manifest_path))
      remote_data == IF ~url.ok THEN RemoteErr(BAD_REQUEST)
                     ELSE IF ~Sendable(url) THEN RemoteErr(INTERNAL_SERVER_ERROR)
                     ELSE RemoteResult(reply)
  IN  IF ~PathIsUtf8(compressed_manifest_path)
      THEN [requested |-> FALSE, url |-> BadUrl, reply |-> NetworkError,
            ok |-> TRUE, remote |-> <<>>]
      ELSE IF remote_data.ok
      THEN [requested |-> TRUE, url |-> url, reply |-> reply,
            ok |-> decompress_asset_response(remote_data.data).ok,
            remote |-> decompress_asset_response(remote_data.data).data]
      ELSE [requested |-> Sendable(url), url |-> url, reply |-> reply,
            ok |-> TRUE, remote |-> <<>>]

\* A pair whose manifest.crc holds the CRC of the local bytes alone.
PublishManifestStaleCrc(map, path, file_data) ==
  LET crc == crc32(file_data)
      crc_file_data == AsBytes(u32_to_string(crc32(disk[path])))
  IN  MapInsert(MapInsert(map, WithFileName(path, MANIFEST_FILE_NAME),
                          MemoryLocator(crc, file_data)),
                WithFileName(path, MANIFEST_CRC_FILE_NAME),
                MemoryLocator(crc32(crc_file_data), crc_file_data))

\* The two entries a merged manifest publishes.
PublishManifest(map, path, file_data) ==
  LET crc == crc32(file_data)
      crc_file_data == AsBytes(u32_to_string(crc))
  IN  MapInsert(MapInsert(map, WithFileName(path, MANIFEST_FILE_NAME),
                          MemoryLocator(crc, file_data)),
                WithFileName(path, MANIFEST_CRC_FILE_NAME),
                MemoryLocator(crc32(crc_file_data), crc_file_data))

\* A file named *_manifest.txt: its remote counterpart is fetched and the
\* pair manifest.txt, manifest.crc is published.
MergeManifest ==
  /\ InLoosePass
  /\ ~IsPack(CurrentFile)
  /\ ~IsManifestTxt(CurrentFile)
  /\ IsManifest(CurrentFile)
  /\ \E reply \in ManifestReplies :
       LET fetch == ManifestFetch(CurrentFile, reply)
           file_data == disk[CurrentFile] \o fetch.remote
       IN  IF fetch.ok
           THEN /\ asset_map' = PublishManifest(asset_map, CurrentFile, file_data)
                /\ build' = [build EXCEPT
                     !.i = @ + 1,
                     !.merges = [key \in DOMAIN @
                                   \cup {WithFileName(CurrentFile, MANIFEST_FILE_NAME)} |->
                                   IF key = WithFileName(CurrentFile, MANIFEST_FILE_NAME)
                                   THEN [file |-> CurrentFile, fetch |-> fetch]
                                   ELSE @[key]]]
                /\ phase' = phase
           ELSE /\ phase' = "failed"
                /\ asset_map' = EmptyMap
                /\ build' = [NoBuild EXCEPT
                     !.err = "InvalidData",
                     !.merges = [key \in {WithFileName(CurrentFile, MANIFEST_FILE_NAME)} |->
                                   [file |-> CurrentFile, fetch |-> fetch]]]
  /\ UNCHANGED <<disk, handlers, dec>>

\* A file whose name ends with manifest.crc is read and passed over.
SkipManifestCrc ==
  /\ InLoosePass
  /\ ~IsPack(CurrentFile)
  /\ ~IsManifestTxt(CurrentFile)
  /\ ~IsManifest(CurrentFile)
  /\ file_name_ends_with(CurrentFile, MANIFEST_CRC_FILE_NAME)
  /\ build' = [build EXCEPT !.i = @ + 1]
  /\ UNCHANGED <<disk, phase, asset_map, handlers, dec>>

\* A loose-file entry that carries the CRC of no bytes.
InsertLooseFileEmptyCrc ==
  /\ InLoosePass
  /\ ~IsPack(CurrentFile)
  /\ ~IsManifestTxt(CurrentFile)
  /\ ~IsManifest(CurrentFile)
  /\ ~file_name_ends_with(CurrentFile, MANIFEST_CRC_FILE_NAME)
  /\ asset_map' = MapInsert(asset_map, CurrentFile,
       FileLocator(crc32(<<>>), CurrentFile, 0, Len(disk[CurrentFile])))
  /\ build' = [build EXCEPT !.i = @ + 1]
  /\ UNCHANGED <<disk, phase, handlers, dec>>

\* Any other file becomes a loose-file entry under its relative path.
InsertLooseFile ==
  /\ InLoosePass
  /\ ~IsPack(CurrentFile)
  /\ ~IsManifestTxt(CurrentFile)
  /\ ~IsManifest(CurrentFile)
  /\ ~file_name_ends_with(CurrentFile, MANIFEST_CRC_FILE_NAME)
  /\ asset_map' = MapInsert(asset_map, CurrentFile,
       FileLocator(crc32(disk[CurrentFile]), CurrentFile, 0,
                   Len(disk[CurrentFile])))
  /\ build' = [build EXCEPT !.i = @ + 1]
  /\ UNCHANGED <<disk, phase, handlers, dec>>

\* The loop over the files ends.
LoosePassDone ==
  /\ phase = "loose"
  /\ build.i > Len(build.files)
  /\ phase' = "fold"
  /\ UNCHANGED <<disk, build, asset_map, handlers, dec>>

\* A spawned pack reader runs, beside the loose-file pass.
PackReaderRuns(j) ==
  /\ phase \in {"loose", "fold"}
  /\ j \in 1..Len(build.tasks)
  /\ build.tasks[j].state = "spawned"
  /\ \E open_ok \in BOOLEAN :
       build' = [build EXCEPT
         !.tasks[j].state = "done",
         !.tasks[j].result =
            IF open_ok THEN list_assets_in_pack(disk[build.tasks[j].path])
            ELSE PackError("Io")]
  /\ UNCHANGED <<disk, phase, asset_map, handlers, dec>>

\* The entries of one pack folded into the map, in directory order.
RECURSIVE FoldAssets(_, _, _, _)
FoldAssets(map, path, assets, n) ==
  IF n > Len(assets) THEN map
  ELSE FoldAssets(
         MapEntryOrInsert(map, Components(assets[n].name),
           FileLocator(assets[n].crc, path, assets[n].data_offset,
                       assets[n].size)),
         path, assets, n + 1)

AwaitedTask == build.tasks[build.k]

\* The packs folded in as their readers finish, not as they were spawned.
FoldPackAsCompleted ==
  /\ phase = "fold"
  /\ build.k <= Len(build.tasks)
  /\ \E j \in 1..Len(build.tasks) :
       /\ build.tasks[j].state = "done"
       /\ build.tasks[j].result.err = "none"
       /\ asset_map' = FoldAssets(asset_map, build.tasks[j].path,
                                  build.tasks[j].result.assets, 1)
       /\ build' = [build EXCEPT !.k = @ + 1, !.tasks[j].state = "folded"]
  /\ UNCHANGED <<disk, phase, handlers, dec>>

\* A pack folded in as soon as its reader is done, the loose-file pass
\* still running.
FoldPackEarly ==
  /\ phase \in {"loose", "fold"}
  /\ build.k <= Len(build.tasks)
  /\ AwaitedTask.state = "done"
  /\ AwaitedTask.result.err = "none"
  /\ asset_map' = FoldAssets(asset_map, AwaitedTask.path,
                             AwaitedTask.result.assets, 1)
  /\ build' = [build EXCEPT !.k = @ + 1]
  /\ UNCHANGED <<disk, phase, handlers, dec>>

\* The next task, in the order of spawning, is awaited and folded in.
FoldPack ==
  /\ phase = "fold"
  /\ build.k <= Len(build.tasks)
  /\ AwaitedTask.state = "done"
  /\ AwaitedTask.result.err = "none"
  /\ asset_map' = FoldAssets(asset_map, AwaitedTask.path,
                             AwaitedTask.result.assets, 1)
  /\ build' = [build EXCEPT !.k = @ + 1]
  /\ UNCHANGED <<disk, phase, handlers, dec>>

\* A failed pack reader passed over: the fold goes on with the next task.
FoldPackSkipsFailed ==
  /\ phase = "fold"
  /\ build.k <= Len(build.tasks)
  /\ AwaitedTask.state = "done"
  /\ AwaitedTask.result.err # "none"
  /\ build' = [build EXCEPT !.k = @ + 1]
  /\ UNCHANGED <<disk, phase, asset_map, handlers, dec>>

\* The awaited task ended with an error.
FoldPackFails ==
  /\ phase = "fold"
  /\ build.k <= Len(build.tasks)
  /\ AwaitedTask.state = "done"
  /\ AwaitedTask.result.err # "none"
  /\ Fail(AwaitedTask.result.err)
  /\ UNCHANGED <<disk, handlers, dec>>

\* build_asset_map returns the map.
BuildReturns ==
  /\ phase = "fold"
  /\ build.k > Len(build.tasks)
  /\ phase' = "built"
  /\ UNCHANGED <<disk, build, asset_map, handlers, dec>>

\* A listener bound while the packs are still being folded in.
BindListenerEarly ==
  /\ phase = "fold"
  /\ phase' = "serving"
  /\ build' = NoBuild
  /\ UNCHANGED <<disk, asset_map, handlers, dec>>

\* prepare_proxy binds the listener; the router owns the map from here.
BindListener ==
  /\ phase = "built"
  /\ phase' = "serving"
  /\ build' = NoBuild
  /\ UNCHANGED <<disk, asset_map, handlers, dec>>

BindListenerFails ==
  /\ phase = "built"
  /\ Fail("Io")
  /\ UNCHANGED <<disk, handlers, dec>>

---------------------------------------------------------------------------
(* Requests: asset_handler, retrieve_asset                                 *)

Handlers == {"h1"}

NoResponse == [status |-> 0, body |-> <<>>, source |-> "none"]

\* No GET of the request has ended yet.
NoReply == [kind |-> "none", status |-> 0, body |-> <<>>]

\* A connection: the wildcard and the query of its request, where its
\* handler stands, the files it opened, the GETs it sent upstream, how
\* build_local_asset_response ended and the response written.
IdleHandler ==
  [pc |-> "idle", asset |-> <<>>, query |-> NoQuery, invalid |-> FALSE,
   decoded |-> NoOutput, url |-> BadUrl, opens |-> <<>>, gets |-> <<>>,
   builder |-> "none", reply |-> NoReply, resp |-> NoResponse]

\* The wildcards requested: plain, with CRC and compression suffixes, with
\* a name hash, with components that are not normal, and with tails that
\* url::Url::join reads as absolute URLs.
LogoCrc == u32_to_string(crc32(LogoBytes))

AssetPaths ==
  { <<"u", "/", "l", ".", "d">>,
    <<"u", "/", "l", ".", "d", "_">> \o LogoCrc,
    <<"u", "/", "l", ".", "d", "_", "7">>,
    <<"u", "/", "l", ".", "d", "_", "a", "b", "c">>,
    <<"u", "/", "l", ".", "d", ".", "z">>,
    <<"0", "4", "2", "/", "u", "/", "l", ".", "d">>,
    <<"m", "/", "a", ".", "b">>,
    <<"m", "/", "x", ".", "b">>,
    <<"d", "/">> \o MANIFEST_FILE_NAME,
    <<"d", "/">> \o MANIFEST_CRC_FILE_NAME \o <<".", "z">>,
    <<"n", ".", "d">>,
    MANIFEST_CRC_FILE_NAME,
    <<".", ".", "/", "s">>,
    <<"0", "4", "2", "/", ".", ".", "/", "s">>,
    <<"/", "s">>,
    <<".", "/", "s">>,
    <<"0", "4", "2">>,
    <<"h", "t", "t", "p", "s", ":", "/", "/", "o", ":", "b", "/", "x">>,
    <<"h", "t", "t", "p", "s", ":", "/", "/", "e", "/", "x">>,
    <<"x", ":", "y">> }

Queries == {NoQuery, <<"x", "=", "1">>}

\* The request target as the client wrote it.
RequestTarget(asset, query) ==
  <<"/">> \o ASSETS_DIR \o asset
    \o (IF query = NoQuery THEN <<>> ELSE <<"?">> \o query)

\* The tail handed to request_remote_asset: the path of the request target
\* without its /assets/ prefix.
path_and_query(asset, query) ==
  LET target == RequestTarget(asset, query)
      path == PathPart(target)
  IN  SubSeq(path, Len(ASSETS_DIR) + 2, Len(path))

Decoded(h) == handlers[h].decoded

Locator(h) == asset_map[Decoded(h).name]

\* The lookup without the CRC gate.
LocalHitAnyCrc(h) == Decoded(h).name \in DOMAIN asset_map

\* The lookup and the CRC gate of retrieve_asset.
LocalHit(h) ==
  /\ Decoded(h).name \in DOMAIN asset_map
  /\ (Decoded(h).crc.some => Decoded(h).crc.v = Locator(h).crc)

Respond(h, status, body, source) ==
  [handlers[h] EXCEPT !.pc = "done",
     !.resp = [status |-> status, body |-> body, source |-> source]]

\* A request arrives and is routed to asset_handler: the name hash is
\* dropped, the path checked and, when it passes, decoded. The upstream URL
\* of the request, a function of its target, is noted with it.
Accept(h, asset, query) ==
  /\ phase = "serving"
  /\ handlers[h].pc = "idle"
  /\ handlers' = [handlers EXCEPT
       ![h] = [IdleHandler EXCEPT
                 !.pc = "accepted", !.asset = asset, !.query = query,
                 !.invalid = is_invalid_path(AssetName(asset)),
                 !.decoded = IF is_invalid_path(AssetName(asset)) THEN NoOutput
                             ELSE decompose_extension(AssetName(asset)),
                 !.url = RemoteUrl(path_and_query(asset, query))]]
  /\ UNCHANGED <<disk, phase, build, asset_map, dec>>

\* retrieve_asset finds a component that is not normal.
RejectPath(h) ==
  /\ handlers[h].pc = "accepted"
  /\ handlers[h].invalid
  /\ handlers' = [handlers EXCEPT ![h] = Respond(h, BAD_REQUEST, <<>>, "rejected")]
  /\ UNCHANGED <<disk, phase, build, asset_map, dec>>

\* The entry found keeps its bytes in memory: the body is built from them.
ServeMemory(h) ==
  /\ handlers[h].pc = "accepted"
  /\ ~handlers[h].invalid
  /\ LocalHit(h)
  /\ Locator(h).kind = "Memory"
  /\ handlers' = [handlers EXCEPT
       ![h] = [Respond(h, OK, Envelope(Locator(h).data, Decoded(h).compress),
                       "local")
               EXCEPT !.builder = "ok"]]
  /\ UNCHANGED <<disk, phase, build, asset_map, dec>>

\* A builder that opens the path the request wrote, under the folder.
OpenRequestedPath(h) ==
  /\ handlers[h].pc = "accepted"
  /\ ~handlers[h].invalid
  /\ LocalHit(h)
  /\ Locator(h).kind = "File"
  /\ handlers' = [handlers EXCEPT ![h].pc = "reading",
                                  ![h].builder = "running",
                                  ![h].opens = Append(@, Components(handlers[h].asset))]
  /\ UNCHANGED <<disk, phase, build, asset_map, dec>>

\* The entry found is a slice of a file: build_local_asset_response opens
\* the file.
OpenLocalFile(h) ==
  /\ handlers[h].pc = "accepted"
  /\ ~handlers[h].invalid
  /\ LocalHit(h)
  /\ Locator(h).kind = "File"
  /\ handlers' = [handlers EXCEPT ![h].pc = "reading",
                                  ![h].builder = "running",
                                  ![h].opens = Append(@, Locator(h).path)]
  /\ UNCHANGED <<disk, phase, build, asset_map, dec>>

\* A miss that is answered on the spot, without the upstream step.
LocalMissAnswered(h) ==
  /\ handlers[h].pc = "accepted"
  /\ ~handlers[h].invalid
  /\ ~LocalHit(h)
  /\ handlers' = [handlers EXCEPT ![h] = Respond(h, 404, <<>>, "upstream")]
  /\ UNCHANGED <<disk, phase, build, asset_map, dec>>

\* No entry, or an entry with another CRC than the one queried.
LocalMiss(h) ==
  /\ handlers[h].pc = "accepted"
  /\ ~handlers[h].invalid
  /\ ~LocalHit(h)
  /\ handlers' = [handlers EXCEPT ![h].pc = "fallback"]
  /\ UNCHANGED <<disk, phase, build, asset_map, dec>>

SliceInFile(locator) ==
  locator.data_offset + locator.size <= Len(disk[locator.path])

\* A read that takes the bytes there are when the slice ends past the end
\* of the file.
LocalReadOkShort(h) ==
  /\ handlers[h].pc = "reading"
  /\ Locator(h).data_offset <= Len(disk[Locator(h).path])
  /\ handlers' = [handlers EXCEPT
       ![h] = [Respond(h, OK,
                 Envelope(SubSeq(disk[Locator(h).path],
                                 Locator(h).data_offset + 1,
                                 IF SliceInFile(Locator(h))
                                 THEN Locator(h).data_offset + Locator(h).size
                                 ELSE Len(disk[Locator(h).path])),
                          Decoded(h).compress),
                 "local")
               EXCEPT !.builder = "ok"]]
  /\ UNCHANGED <<disk, phase, build, asset_map, dec>>

\* A read that leaves the file it read from empty.
LocalReadOkConsuming(h) ==
  /\ handlers[h].pc = "reading"
  /\ SliceInFile(Locator(h))
  /\ handlers' = [handlers EXCEPT
       ![h] = [Respond(h, OK,
                 Envelope(SubSeq(disk[Locator(h).path],
                                 Locator(h).data_offset + 1,
                                 Locator(h).data_offset + Locator(h).size),
                          Decoded(h).compress),
                 "local")
               EXCEPT !.builder = "ok"]]
  /\ disk' = [disk EXCEPT ![Locator(h).path] = <<>>]
  /\ UNCHANGED <<phase, build, asset_map, dec>>

\* The slice is read and the body built.
LocalReadOk(h) ==
  /\ handlers[h].pc = "reading"
  /\ SliceInFile(Locator(h))
  /\ handlers' = [handlers EXCEPT
       ![h] = [Respond(h, OK,
                 Envelope(SubSeq(disk[Locator(h).path],
                                 Locator(h).data_offset + 1,
                                 Locator(h).data_offset + Locator(h).size),
                          Decoded(h).compress),
                 "local")
               EXCEPT !.builder = "ok"]]
  /\ UNCHANGED <<disk, phase, build, asset_map, dec>>

\* A failed local read reported to the client.
LocalReadFailsReported(h) ==
  /\ handlers[h].pc = "reading"
  /\ handlers' = [handlers EXCEPT
       ![h] = [Respond(h, INTERNAL_SERVER_ERROR, <<>>, "local")
               EXCEPT !.builder = "err"]]
  /\ UNCHANGED <<disk, phase, build, asset_map, dec>>

\* open, seek or read_exact fails (always when the slice ends past the end
\* of the file): the error is dropped and the request falls back.
LocalReadFails(h) ==
  /\ handlers[h].pc = "reading"
  /\ handlers' = [handlers EXCEPT ![h].pc = "fallback", ![h].builder = "err"]
  /\ UNCHANGED <<disk, phase, build, asset_map, dec>>

UpstreamUrl(h) == handlers[h].url

\* Url::join fails.
UpstreamUrlFails(h) ==
  /\ handlers[h].pc = "fallback"
  /\ ~UpstreamUrl(h).ok
  /\ handlers' = [handlers EXCEPT ![h] = Respond(h, BAD_REQUEST, <<>>, "upstream")]
  /\ UNCHANGED <<disk, phase, build, asset_map, dec>>

\* The client refuses the URL: send fails with an error without status.
UpstreamSendFails(h) ==
  /\ handlers[h].pc = "fallback"
  /\ UpstreamUrl(h).ok
  /\ ~Sendable(UpstreamUrl(h))
  /\ handlers' = [handlers EXCEPT
       ![h] = Respond(h, INTERNAL_SERVER_ERROR, <<>>, "upstream")]
  /\ UNCHANGED <<disk, phase, build, asset_map, dec>>

\* The GET is sent.
UpstreamSend(h) ==
  /\ handlers[h].pc = "fallback"
  /\ UpstreamUrl(h).ok
  /\ Sendable(UpstreamUrl(h))
  /\ handlers' = [handlers EXCEPT ![h].pc = "awaiting",
                                  ![h].gets = Append(@, UpstreamUrl(h))]
  /\ UNCHANGED <<disk, phase, build, asset_map, dec>>

UpstreamReplies ==
  { Response(OK, <<85>>), Response(404, <<78>>), Response(204, <<>>),
    BodyError(OK), NetworkError }

\* The result of a GET relayed to every handler that awaits one.
UpstreamReplyToAll(h) ==
  /\ handlers[h].pc = "awaiting"
  /\ \E reply \in UpstreamReplies :
       handlers' = [g \in DOMAIN handlers |->
         IF handlers[g].pc = "awaiting"
         THEN [Respond(g, RemoteResult(reply).status,
                       RemoteResult(reply).data, "upstream")
               EXCEPT !.reply = IF g = h THEN reply ELSE @]
         ELSE handlers[g]]
  /\ UNCHANGED <<disk, phase, build, asset_map, dec>>

\* The GET ends and its result is relayed.
UpstreamReply(h) ==
  /\ handlers[h].pc = "awaiting"
  /\ \E reply \in UpstreamReplies :
       handlers' = [handlers EXCEPT
         ![h] = [Respond(h, RemoteResult(reply).status,
                         RemoteResult(reply).data, "upstream")
                 EXCEPT !.reply = reply]]
  /\ UNCHANGED <<disk, phase, build, asset_map, dec>>

\* The response is written and the connection serves its next request.
Close(h) ==
  /\ handlers[h].pc = "done"
  /\ handlers' = [handlers EXCEPT ![h] = IdleHandler]
  /\ UNCHANGED <<disk, phase, build, asset_map, dec>>

---------------------------------------------------------------------------
(* The proxy                                                               *)

NoDecode ==
  [N |-> <<>>, form |-> "plain", c |-> U32Zero, url |-> <<>>, done |-> TRUE,
   out |-> NoOutput]

ServerIdle ==
  /\ disk = FolderA
  /\ phase = "off"
  /\ build = NoBuild
  /\ asset_map = EmptyMap
  /\ handlers = [h \in Handlers |-> IdleHandler]

Init ==
  /\ disk \in Folders
  /\ phase = "start"
  /\ build = NoBuild
  /\ asset_map = EmptyMap
  /\ handlers = [h \in Handlers |-> IdleHandler]
  /\ dec = NoDecode

Next ==
  \/ ListFiles
  \/ ListFilesFails
  \/ SpawnPackReader
  \/ SkipManifestTxt
  \/ ReadFileFails
  \/ MergeManifest
  \/ SkipManifestCrc
  \/ InsertLooseFile
  \/ LoosePassDone
  \/ \E j \in 1..Len(build.tasks) : PackReaderRuns(j)
  \/ FoldPack
  \/ FoldPackFails
  \/ BuildReturns
  \/ BindListener
  \/ BindListenerFails
  \/ \E h \in Handlers, asset \in AssetPaths, query \in Queries :
       Accept(h, asset, query)
  \/ \E h \in Handlers : RejectPath(h)
  \/ \E h \in Handlers : ServeMemory(h)
  \/ \E h \in Handlers : OpenLocalFile(h)
  \/ \E h \in Handlers : LocalMiss(h)
  \/ \E h \in Handlers : LocalReadOk(h)
  \/ \E h \in Handlers : LocalReadFails(h)
  \/ \E h \in Handlers : UpstreamUrlFails(h)
  \/ \E h \in Handlers : UpstreamSendFails(h)
  \/ \E h \in Handlers : UpstreamSend(h)
  \/ \E h \in Handlers : UpstreamReply(h)
  \/ \E h \in Handlers : Close(h)

Spec == Init /\ [][Next]_vars

HandlerStep(h) ==
  \/ RejectPath(h)
  \/ ServeMemory(h)
  \/ OpenLocalFile(h)
  \/ LocalMiss(h)
  \/ LocalReadOk(h)
  \/ LocalReadFails(h)
  \/ UpstreamUrlFails(h)
  \/ UpstreamSendFails(h)
  \/ UpstreamSend(h)
  \/ UpstreamReply(h)

\* The runtime polls every handler that can go on, and every GET sent ends,
\* in a response or in an error.
FairSpec == Spec /\ \A h \in Handlers : WF_vars(HandlerStep(h))

---------------------------------------------------------------------------
(* Request properties                                                      *)

Busy(h) == handlers[h].pc # "idle"

Answered(h) == handlers[h].pc = "done"

\* The key of a request: the components of its wildcard after an optional
\* leading name hash.
DecodedKey(h) ==
  LET components == Components(handlers[h].asset)
  IN  IF Len(components) > 0 /\ is_name_hash(components[1])
      THEN Tail(components) ELSE components

BadKey(h) ==
  \E i \in 1..Len(DecodedKey(h)) :
    DecodedKey(h)[i] \in {RootDir, CurDir, ParentDir}

\* C1: a request whose decoded key holds a component that is not a normal
\* name is answered 400, and opens no file and sends no upstream GET.
C1_BadPathRejectedWithoutIO ==
  \A h \in Handlers :
    (Busy(h) /\ BadKey(h)) =>
      /\ handlers[h].pc \in {"accepted", "done"}
      /\ handlers[h].opens = <<>>
      /\ handlers[h].gets = <<>>
      /\ handlers[h].builder = "none"
      /\ Answered(h) => /\ handlers[h].resp.status = BAD_REQUEST
                        /\ handlers[h].resp.body = <<>>

C1_Witness ==
  \E h \in Handlers :
    /\ Answered(h)
    /\ handlers[h].asset = <<"0", "4", "2", "/", ".", ".", "/", "s">>
    /\ BadKey(h)
    /\ handlers[h].resp.status = BAD_REQUEST

\* C2: the URL of an upstream GET carries the query string of the request
\* (fails: the tail is cut from the path alone).
C2_UpstreamUrlKeepsQuery ==
  \A h \in Handlers :
    \A i \in 1..Len(handlers[h].gets) :
      handlers[h].gets[i].query = handlers[h].query

\* The request came to the fallback: it was neither served from the index
\* nor refused for its path.
FellBack(h) ==
  /\ Answered(h)
  /\ handlers[h].resp.source \notin {"local", "rejected"}

JoinedUrl(h) ==
  UrlJoin(MakeUrl(HTTPS, <<"o">>, <<"/">> \o ASSETS_DIR, NoQuery),
          PathPart(SubSeq(RequestTarget(handlers[h].asset, handlers[h].query),
                          Len(ASSETS_DIR) + 2,
                          Len(RequestTarget(handlers[h].asset,
                                            handlers[h].query)))))

JoinedHttp(h) == JoinedUrl(h).ok /\ JoinedUrl(h).scheme \in {HTTP, HTTPS}

GetsBounded ==
  \A h \in Handlers :
    /\ Len(handlers[h].gets) <= 1
    /\ (Answered(h) /\ handlers[h].resp.source \in {"local", "rejected"}) =>
         handlers[h].gets = <<>>

FallbackGets ==
  /\ GetsBounded
  /\ \A h \in Handlers :
       FellBack(h) =>
         /\ JoinedHttp(h) => Len(handlers[h].gets) = 1
         /\ ~JoinedUrl(h).ok =>
              handlers[h].gets = <<>> /\ handlers[h].resp.status = BAD_REQUEST
         /\ (JoinedUrl(h).ok /\ ~JoinedHttp(h)) =>
              /\ handlers[h].gets = <<>>
              /\ handlers[h].resp.status = INTERNAL_SERVER_ERROR

QueriedCrc(h) == decompose_extension(DecodedKey(h)).crc

IndexedKey(h) == decompose_extension(DecodedKey(h)).name

Indexed(h) == ~BadKey(h) /\ IndexedKey(h) \in DOMAIN asset_map

CrcAgrees(h) ==
  ~QueriedCrc(h).some \/ QueriedCrc(h).v = asset_map[IndexedKey(h)].crc

BuilderInvoked(h) == handlers[h].builder # "none"

\* C4: for a key in the index the response builder is invoked iff no CRC
\* is queried or the queried CRC is the locator's; with another CRC no
\* local bytes are returned and the answer is the upstream's.
C4_CrcGate ==
  \A h \in Handlers :
    (Indexed(h) /\ handlers[h].pc \notin {"idle", "accepted"}) =>
      /\ BuilderInvoked(h) <=> CrcAgrees(h)
      /\ ~CrcAgrees(h) =>
           /\ handlers[h].opens = <<>>
           /\ Answered(h) => /\ handlers[h].resp.source = "upstream"
                             /\ Len(handlers[h].gets) = 1

C4_Witness ==
  \E h \in Handlers :
    /\ Answered(h)
    /\ Indexed(h)
    /\ QueriedCrc(h).some
    /\ ~CrcAgrees(h)
    /\ handlers[h].resp = [status |-> OK, body |-> <<85>>, source |-> "upstream"]

UpstreamAnswers ==
  {[status |-> RemoteResult(reply).status, body |-> RemoteResult(reply).data,
    source |-> "upstream"] : reply \in UpstreamReplies}

\* C5: when building the local response fails, the request goes on to the
\* upstream fetch and the client gets what that fetch yields: no status and
\* no bytes of the failed local read.
C5_LocalErrorFallsBack ==
  \A h \in Handlers :
    handlers[h].builder = "err" =>
      /\ handlers[h].pc \in {"fallback", "awaiting", "done"}
      /\ Answered(h) => /\ Len(handlers[h].gets) = 1
                        /\ handlers[h].resp \in UpstreamAnswers

C5_Witness ==
  \E h \in Handlers :
    /\ Answered(h)
    /\ handlers[h].builder = "err"
    /\ handlers[h].asset = <<"m", "/", "x", ".", "b">>
    /\ handlers[h].resp = [status |-> OK, body |-> <<85>>, source |-> "upstream"]

---------------------------------------------------------------------------
(* Index properties                                                        *)

Published == phase \in {"built", "serving"}

\* A loose file that is indexed under its own relative path.
ProducesKey(path) ==
  /\ ~(HasExtension(path) /\ Extension(path) = PACK_EXTENSION)
  /\ FileName(path) # MANIFEST_FILE_NAME
  /\ ~(ValidUtf8(FileName(path)) /\ EndsWith(FileName(path), MANIFEST_SUFFIX))
  /\ ~(ValidUtf8(FileName(path))
       /\ EndsWith(FileName(path), MANIFEST_CRC_FILE_NAME))

Packs(folder) ==
  {path \in DOMAIN folder :
     HasExtension(path) /\ Extension(path) = PACK_EXTENSION}

PackKeys(folder) ==
  UNION {{Components(list_assets_in_pack(folder[pack]).assets[n].name) :
            n \in 1..Len(list_assets_in_pack(folder[pack]).assets)} :
         pack \in Packs(folder)}

\* The keys a loose file and a pack entry both produce.
Colliding(folder) ==
  {key \in DOMAIN folder : ProducesKey(key) /\ key \in PackKeys(folder)}

\* C6: a key that a loose file and a pack entry both produce is indexed as
\* the loose file (offset 0, the file's length and CRC), whatever the order
\* of the walk, and a request served from it gets the loose file's bytes.
C6_LooseFileShadowsPack ==
  /\ Published =>
       \A key \in Colliding(disk) :
         /\ key \in DOMAIN asset_map
         /\ asset_map[key] =
              FileLocator(crc32(disk[key]), key, 0, Len(disk[key]))
  /\ \A h \in Handlers :
       (/\ Answered(h)
        /\ handlers[h].resp.source = "local"
        /\ IndexedKey(h) \in Colliding(disk)) =>
         /\ handlers[h].opens = <<IndexedKey(h)>>
         /\ handlers[h].resp.body =
              Envelope(disk[IndexedKey(h)],
                       decompose_extension(DecodedKey(h)).compress)

C6_Witness ==
  \E h \in Handlers :
    /\ Answered(h)
    /\ handlers[h].asset = <<"u", "/", "l", ".", "d">>
    /\ LogoKey \in Colliding(disk)
    /\ handlers[h].resp = [status |-> OK, body |-> LogoBytes, source |-> "local"]

ManifestKey(path) == WithFileName(path, MANIFEST_FILE_NAME)

ManifestCrcKey(path) == WithFileName(path, MANIFEST_CRC_FILE_NAME)

\* The files build_asset_map has gone through.
Processed ==
  IF phase = "loose"
  THEN {build.files[n] : n \in 1..(build.i - 1)}
  ELSE IF phase \in {"fold", "built"}
  THEN {build.files[n] : n \in 1..Len(build.files)}
  ELSE {}

\* The name of the file is valid UTF-8 and ends with _manifest.txt.
Utf8Manifest(path) ==
  ValidUtf8(FileName(path)) /\ EndsWith(FileName(path), MANIFEST_SUFFIX)

\* The body of a 200 that is no envelope to decompress.
BadEnvelope(fetch) ==
  /\ fetch.requested
  /\ fetch.reply.kind = "response"
  /\ fetch.reply.status = OK
  /\ ~decompress_asset_response(fetch.reply.body).ok

\* What the remote side of a merge contributed.
Contribution(fetch) ==
  IF /\ fetch.requested
     /\ fetch.reply.kind = "response"
     /\ fetch.reply.status = OK
     /\ decompress_asset_response(fetch.reply.body).ok
  THEN decompress_asset_response(fetch.reply.body).data
  ELSE <<>>

StartsWith(s, prefix) ==
  Len(s) >= Len(prefix) /\ SubSeq(s, 1, Len(prefix)) = prefix

\* C7 as stated: whatever the fetch of the remote manifest does, the build
\* goes on and publishes the local bytes (fails: a 200 whose body is a
\* short or corrupt envelope ends build_asset_map with an error).
C7_EveryFetchOutcomeTolerated ==
  \A key \in DOMAIN build.merges :
    /\ phase # "failed"
    /\ key \in DOMAIN asset_map
    /\ StartsWith(asset_map[key].data, disk[build.merges[key].file])

\* C7: for a manifest whose file name is valid UTF-8, a fetch that ends in
\* a 200 with a valid envelope, another status, an error, or that is not
\* sent for a path that is not UTF-8, lets the build go on: manifest.txt is
\* the local bytes followed by the decompressed envelope, or by nothing
\* when the remote side failed, until a later manifest of the directory
\* replaces it. A 200 with a short or corrupt envelope ends the build with
\* InvalidData.
C7_MergeOutcomes ==
  /\ \A path \in Processed :
       Utf8Manifest(path) => ManifestKey(path) \in DOMAIN build.merges
  /\ \A key \in DOMAIN build.merges :
       LET merge == build.merges[key]
           data == disk[merge.file] \o Contribution(merge.fetch)
       IN  IF BadEnvelope(merge.fetch)
           THEN phase = "failed" /\ build.err = "InvalidData"
           ELSE /\ phase \in {"loose", "fold", "built"}
                /\ key \in DOMAIN asset_map
                /\ asset_map[key] = MemoryLocator(crc32(data), data)
                /\ ~RemoteResult(merge.fetch.reply).ok =>
                     asset_map[key].data = disk[merge.file]

C7_Witness ==
  /\ phase = "built"
  /\ \E key \in DOMAIN build.merges :
       /\ build.merges[key].fetch.requested
       /\ build.merges[key].fetch.reply.kind = "response"
       /\ build.merges[key].fetch.reply.status = 404
       /\ asset_map[key].data = disk[build.merges[key].file]

\* The manifest files of the directory of path, by their names' bytes or
\* by their names as UTF-8 strings.
Siblings(path, utf8) ==
  {q \in DOMAIN disk :
     /\ ManifestKey(q) = ManifestKey(path)
     /\ EndsWith(FileName(q), MANIFEST_SUFFIX)
     /\ utf8 => ValidUtf8(FileName(q))}

PairConsistent(path, utf8) ==
  /\ ManifestKey(path) \in DOMAIN asset_map
  /\ ManifestCrcKey(path) \in DOMAIN asset_map
  /\ asset_map[ManifestKey(path)].kind = "Memory"
  /\ asset_map[ManifestCrcKey(path)].kind = "Memory"
  /\ asset_map[ManifestKey(path)].data \in
       {disk[q] \o remote :
          q \in Siblings(path, utf8), remote \in {<<>>, RemoteManifest}}
  /\ phase = "built" =>
       /\ ManifestKey(path) \in DOMAIN build.merges
       /\ asset_map[ManifestKey(path)].data =
            disk[build.merges[ManifestKey(path)].file]
              \o Contribution(build.merges[ManifestKey(path)].fetch)
  /\ asset_map[ManifestCrcKey(path)].data =
       AsBytes(u32_to_string(crc32(asset_map[ManifestKey(path)].data)))

\* C8 as stated: every directory that holds a file *_manifest.txt has the
\* pair in the index (fails: a file whose name ends with _manifest.txt but
\* is not valid UTF-8 is indexed as a plain loose file).
C8_EveryManifestDirHasPair ==
  Published =>
    \A path \in DOMAIN disk :
      EndsWith(FileName(path), MANIFEST_SUFFIX) => PairConsistent(path, FALSE)

\* C8: in every index built, a directory that holds a file whose name is
\* valid UTF-8 and ends with _manifest.txt has manifest.txt as a Memory
\* entry of local bytes followed by the decompressed remote ones, and
\* manifest.crc as a Memory entry with the decimal of the crc32 of just
\* those bytes, also when several manifests or pack entries compete.
C8_ManifestPair ==
  Published =>
    \A path \in DOMAIN disk : Utf8Manifest(path) => PairConsistent(path, TRUE)

C8_Witness ==
  /\ phase = "built"
  /\ << <<"d">>, MANIFEST_FILE_NAME >> \in DOMAIN build.merges
  /\ build.merges[<< <<"d">>, MANIFEST_FILE_NAME >>].fetch.reply
       = Response(OK, Envelope(RemoteManifest, TRUE))
  /\ asset_map[<< <<"d">>, MANIFEST_FILE_NAME >>].data = <<77, 82>>
  /\ asset_map[<< <<"d">>, MANIFEST_CRC_FILE_NAME >>].data
       = AsBytes(u32_to_string(crc32(<<77, 82>>)))

---------------------------------------------------------------------------
(* Decoder inputs                                                          *)

MaxNameLen == 4

DecodeAlphabet == {"t", ".", "_", "z", "7"}

\* Names that reach the limits of the CRC parser.
LongNames ==
  { <<"t", ".", "d", "_", "a", "b", "c">>,
    <<"t", ".", "d", "_", "9", "9", "9", "9", "9", "9", "9", "9", "9", "9", "9">>,
    <<"t", ".", "d", "_", "4", "2", "9", "4", "9", "6", "7", "2", "9", "5">>,
    <<"t", ".", "d", "_", "4", "2", "9", "4", "9", "6", "7", "2", "9", "6">>,
    <<"t", ".", "d", "_", "+", "7">>,
    <<"t", ".", "d", "_", "-", "7">>,
    <<"t", ".", "d", "_", "0", "0", "7">>,
    <<"t", ".", "d", "d", "s">> }

\* File names: every string a normal component can be.
DecodeFileNames ==
  {s \in StringsUpTo(DecodeAlphabet, MaxNameLen) \cup LongNames :
     s # <<>> /\ IsNormal(s)}

DecodeNames ==
  {<<>>} \cup {<<f>> : f \in DecodeFileNames}
         \cup {<<<<"u", "i">>, f>> : f \in LongNames}

DecodeCrcs == {U32Zero, <<0, 7>>, <<1, 0>>, <<32768, 0>>, U32Max}

DecodeForms == {"plain", "crc", "z", "zcrc"}

\* The text a form appends to the file name of asset name N.
FormSuffix(form, c) ==
  CASE form = "plain" -> <<>>
    [] form = "crc" -> <<CRC_EXTENSION_SEPARATOR>> \o u32_to_string(c)
    [] form = "z" -> <<".", "z">>
    [] form = "zcrc" -> <<".", "z", CRC_EXTENSION_SEPARATOR>> \o u32_to_string(c)

Encode(N, form, c) ==
  IF Len(N) = 0 THEN N
  ELSE [N EXCEPT ![Len(N)] = N[Len(N)] \o FormSuffix(form, c)]

DecodeInit ==
  /\ ServerIdle
  /\ dec \in {[N |-> N, form |-> f, c |-> c, url |-> Encode(N, f, c),
            done |-> FALSE, out |-> NoOutput] :
             N \in DecodeNames, f \in DecodeForms, c \in DecodeCrcs}

Decompose ==
  /\ ~dec.done
  /\ dec' = [dec EXCEPT !.done = TRUE, !.out = decompose_extension(dec.url)]
  /\ UNCHANGED <<disk, phase, build, asset_map, handlers>>

DecodeNext == Decompose

SpecDecode == DecodeInit /\ [][DecodeNext]_vars

---------------------------------------------------------------------------
(* Decoder properties                                                      *)

\* What the four accepted URL forms of asset name N and CRC c decode to.
FormOutput(N, form, c) ==
  [name |-> N,
   compress |-> form \in {"z", "zcrc"},
   crc |-> IF form \in {"crc", "zcrc"} THEN SomeU32(c) ELSE NoneU32]

\* C9: the extension is split on its rightmost "_"; only when the right
\* side parses as a u32 is it the queried CRC and the extension replaced by
\* the left side; otherwise the name is left unchanged and there is no
\* queried CRC (the ".z" step then applies to the name so obtained).
C9_SuffixDroppedOnlyWhenCrcParses ==
  dec.done =>
    LET split == HasExtension(dec.url) /\ HasSeparator(Extension(dec.url))
        parsed == IF split THEN parse_u32(RSplitRight(Extension(dec.url)))
                  ELSE NoneU32
        kept == IF parsed.some
                THEN WithExtension(dec.url, RSplitLeft(Extension(dec.url)))
                ELSE dec.url
    IN  /\ dec.out.crc = parsed
        /\ dec.out.name = StripCompressed(kept, parsed).name

\* C10 as stated: for every asset name N and every u32 c the forms N, N_c,
\* N.z and N.z_c decode to (N, false, none), (N, false, c), (N, true, none)
\* and (N, true, c).
C10_EveryNameDecodes ==
  dec.done => dec.out = FormOutput(dec.N, dec.form, dec.c)

\* The asset names whose last component has a non-empty extension that
\* holds no "_" and is not "z".
PlainExtension(N) ==
  /\ HasExtension(N)
  /\ Extension(N) # <<>>
  /\ ~HasSeparator(Extension(N))
  /\ Extension(N) # COMPRESSED_EXTENSION

\* C10 (amended): for every asset name N whose last component has a
\* non-empty extension without "_" other than "z", and every u32 c, the
\* forms N, N_c, N.z and N.z_c decode to (N, false, none), (N, false, c),
\* (N, true, none) and (N, true, c): the CRC step acts before the ".z" step.
C10_PlainExtensionNamesDecode ==
  (dec.done /\ PlainExtension(dec.N)) =>
     dec.out = FormOutput(dec.N, dec.form, dec.c)

\* C10 witness: a compressed URL with the largest CRC has been decoded.
C10_Witness ==
  /\ dec.done
  /\ PlainExtension(dec.N)
  /\ dec.form = "zcrc"
  /\ dec.c = U32Max
  /\ dec.out.compress
  /\ dec.out.crc = SomeU32(U32Max)

---------------------------------------------------------------------------
(* Name-hash inputs                                                        *)

\* First components around the limits of is_name_hash; <<>> stands for a
\* wildcard without one.
HashFirsts ==
  { <<>>, <<"0", "4", "2">>, <<"0", "0", "0">>, <<"9", "9", "9">>,
    <<"+", "1", "2">>, <<"-", "1", "2">>, <<"1", "2">>,
    <<"1", "2", "3", "4">>, <<"a", "1", "2">>, <<"0", "4", "a">>,
    <<"0", ".", "2">>, <<"6", "5", "5", "3", "5">> }

HashTails ==
  { <<>>, <<"s">>, <<"u", "/", "l", ".", "d">>, <<"0", "4", "2", "/", "s">>,
    <<"1", "2", "3">>, <<".", "/", "s">>, <<".", ".", "/", "s">>,
    <<"/", "s">>, <<"a", "/", ".", "/", "b">>, <<"+", "1", "2", "/", "s">> }

HashWildcard(first, P) ==
  IF first = <<>> THEN P
  ELSE IF P = <<>> THEN first
  ELSE first \o <<"/">> \o P

HashInit ==
  /\ ServerIdle
  /\ dec \in {[first |-> first, P |-> P, url |-> HashWildcard(first, P),
               done |-> FALSE, out |-> <<>>] :
              first \in HashFirsts, P \in HashTails}

DropNameHash ==
  /\ ~dec.done
  /\ dec' = [dec EXCEPT !.done = TRUE, !.out = AssetName(dec.url)]
  /\ UNCHANGED <<disk, phase, build, asset_map, handlers>>

HashNext == DropNameHash

SpecHash == HashInit /\ [][HashNext]_vars

---------------------------------------------------------------------------
(* Name-hash properties                                                    *)

\* Three characters that str::parse reads as a decimal u16: three digits,
\* or a "+" and two digits.
ThreeCharDecimal(component) ==
  /\ Len(component) = 3
  /\ component[2] \in Digits
  /\ component[3] \in Digits
  /\ component[1] \in Digits \cup {"+"}

ThreeDigits(component) ==
  Len(component) = 3 /\ \A i \in 1..3 : component[i] \in Digits

\* The key of wildcard s: its components without a leading name hash.
KeyOf(s) ==
  IF Len(Components(s)) > 0 /\ ThreeCharDecimal(Components(s)[1])
  THEN Tail(Components(s)) ELSE Components(s)

\* P is written with normal components only and does not itself start
\* with a name hash.
PlainPath(P) ==
  /\ \A i \in 1..Len(Components(P)) :
       Components(P)[i] \notin {RootDir, CurDir, ParentDir}
  /\ Len(P) > 0 => P[1] # "/"
  /\ Len(Components(P)) > 0 => ~ThreeCharDecimal(Components(P)[1])

\* C11 as stated: for every path P, ddd/P has the key of P (fails: for a P
\* that starts with a name hash of its own, or with "." or "/").
C11_PrefixedRequestSameAsPlain ==
  (dec.done /\ ThreeDigits(dec.first)) => dec.out = KeyOf(dec.P)

\* C11: the first component is dropped exactly when it has three
\* characters and parses as a decimal u16; nothing else is dropped; and
\* for a P of normal components that does not start with a name hash,
\* ddd/P has the key of P.
C11_NameHashDrop ==
  dec.done =>
    /\ dec.out = KeyOf(dec.url)
    /\ Len(Components(dec.url)) - Len(dec.out) \in {0, 1}
    /\ (ThreeDigits(dec.first) /\ PlainPath(dec.P)) =>
         dec.out = Components(dec.P) /\ KeyOf(dec.P) = Components(dec.P)

C11_Witness ==
  /\ dec.done
  /\ dec.first = <<"0", "4", "2">>
  /\ dec.P = <<"u", "/", "l", ".", "d">>
  /\ dec.out = << <<"u">>, <<"l", ".", "d">> >>

---------------------------------------------------------------------------
(* Upstream properties                                                     *)

Relayed(h) == Answered(h) /\ Len(handlers[h].gets) = 1

CrcMiss(h) == Indexed(h) /\ ~CrcAgrees(h)

---------------------------------------------------------------------------
(* Key properties                                                          *)

\* C14: every key of the asset map consists of normal components only
\* (fails: the name of a pack entry becomes a key as it is written).
C14_KeysAreNormal ==
  \A key \in DOMAIN asset_map :
    \A i \in 1..Len(key) : key[i] \notin {RootDir, CurDir, ParentDir}

\* A file on disk that the loose-file pass leaves out: one named
\* manifest.txt, or one whose name ends with manifest.crc.
LeftOut(path) ==
  \/ FileName(path) = MANIFEST_FILE_NAME
  \/ /\ ValidUtf8(FileName(path))
     /\ EndsWith(FileName(path), MANIFEST_CRC_FILE_NAME)

ManifestNamed(key) ==
  /\ Len(key) > 0
  /\ key[Len(key)] \in {MANIFEST_FILE_NAME, MANIFEST_CRC_FILE_NAME}

ServedLocally(h) == Answered(h) /\ handlers[h].resp.source = "local"

\* C15 as stated: under the keys manifest.txt and manifest.crc only
\* synthesized Memory entries are served (fails: a pack entry of such a key
\* is served when its directory has no manifest of its own).
C15_OnlySynthesizedManifestsServed ==
  \A h \in Handlers :
    (ServedLocally(h) /\ ManifestNamed(IndexedKey(h))) =>
      asset_map[IndexedKey(h)].kind = "Memory"

\* C15: a file on disk named manifest.txt, or whose name ends with
\* manifest.crc, is the file of no locator and is never opened; in a
\* directory with a manifest the two keys are the synthesized Memory
\* entries; elsewhere such a key can only be a pack entry.
C15_ManifestFilesNeverIndexed ==
  /\ \A key \in DOMAIN asset_map :
       /\ asset_map[key].kind = "File" =>
            ~(asset_map[key].path \in DOMAIN disk /\ LeftOut(asset_map[key].path))
       /\ (ManifestNamed(key) /\ asset_map[key].kind = "File") =>
            asset_map[key].path \in Packs(disk)
  /\ Published =>
       \A path \in DOMAIN disk :
         Utf8Manifest(path) =>
           /\ asset_map[ManifestKey(path)].kind = "Memory"
           /\ asset_map[ManifestCrcKey(path)].kind = "Memory"
  /\ \A h \in Handlers :
       /\ \A n \in 1..Len(handlers[h].opens) : ~LeftOut(handlers[h].opens[n])
       /\ (ServedLocally(h) /\ ManifestNamed(IndexedKey(h))
           /\ asset_map[IndexedKey(h)].kind = "Memory") =>
            /\ handlers[h].opens = <<>>
            /\ handlers[h].resp.body =
                 Envelope(asset_map[IndexedKey(h)].data,
                          handlers[h].decoded.compress)

C15_Witness ==
  \E h \in Handlers :
    /\ ServedLocally(h)
    /\ handlers[h].asset = MANIFEST_CRC_FILE_NAME
    /\ << MANIFEST_CRC_FILE_NAME >> \in DOMAIN disk
    /\ asset_map[IndexedKey(h)].path \in Packs(disk)
    /\ handlers[h].resp.body = <<7>>

\* A locator that comes from a loose file or from a synthesized manifest.
FromLooseOrManifest(locator) ==
  \/ locator.kind = "Memory"
  \/ locator.kind = "File" /\ locator.path \notin Packs(disk)

---------------------------------------------------------------------------
(* Start-up properties                                                     *)

\* Both loops of build_asset_map have run to their end.
BuildComplete ==
  /\ build.err = "none"
  /\ build.i > Len(build.files)
  /\ build.k > Len(build.tasks)
  /\ \A j \in 1..Len(build.tasks) : build.tasks[j].state = "done"

\* C17: the listener is bound, and requests are handled, only after the
\* loose-file pass and every pack fold have finished; from then on no step
\* changes the map, so every request sees the map build_asset_map returned,
\* which holds every loose file and every pack entry of the folder.
C17_BuiltBeforeServedAndImmutable ==
  /\ [](\A h \in Handlers : Busy(h) => phase = "serving")
  /\ [](Published =>
          /\ PackKeys(disk) \subseteq DOMAIN asset_map
          /\ \A path \in DOMAIN disk :
               ProducesKey(path) => path \in DOMAIN asset_map)
  /\ [][phase' = "built" => (phase = "built" \/ BuildComplete)]_vars
  /\ [][phase' = "serving" =>
          /\ phase \in {"built", "serving"}
          /\ asset_map' = asset_map]_vars
  /\ [][phase = "serving" => phase' = "serving"]_vars

C17_Witness ==
  \E h \in Handlers :
    /\ phase = "serving"
    /\ ServedLocally(h)
    /\ handlers[h].asset = <<"m", "/", "a", ".", "b">>
    /\ asset_map[IndexedKey(h)].path \in Packs(disk)
    /\ handlers[h].resp.status = OK

\* A pack reader task that has returned an error.
FailedTasks ==
  {j \in 1..Len(build.tasks) :
     build.tasks[j].state = "done" /\ build.tasks[j].result.err # "none"}

\* C18: a failure of the walk, of the read of a loose file or of a pack
\* reader ends prepare_proxy with the error: the build never returns a map
\* while a pack reader has failed, and once failed there is an error to
\* report, no map, no listener and no request, for good.
C18_StartupFailure ==
  /\ [](FailedTasks # {} => phase \in {"loose", "fold"})
  /\ [](phase = "failed" =>
          /\ build.err # "none"
          /\ asset_map = EmptyMap
          /\ \A h \in Handlers : ~Busy(h))
  /\ [](Published => build.err = "none")
  /\ [][FailedTasks # {} => phase' \in {"loose", "fold", "failed"}]_vars
  /\ [][phase = "failed" => phase' = "failed"]_vars

C18_Witness ==
  /\ phase = "failed"
  /\ build.err = "Io"
  /\ disk = FolderB
  /\ asset_map = EmptyMap

---------------------------------------------------------------------------
(* Two runs of build_asset_map on one folder                               *)

NoFirstRun ==
  [run |-> 1, files |-> <<>>, merges |-> NoBuild.merges, map |-> EmptyMap]

RebuildInit ==
  /\ disk = FolderC
  /\ phase = "start"
  /\ build = NoBuild
  /\ asset_map = EmptyMap
  /\ handlers = [h \in Handlers |-> IdleHandler]
  /\ dec = NoFirstRun

\* The first run has returned its map; build_asset_map is called again on
\* the same folder.
Rerun ==
  /\ phase = "built"
  /\ dec.run = 1
  /\ dec' = [run |-> 2, files |-> build.files, merges |-> build.merges,
             map |-> asset_map]
  /\ phase' = "start"
  /\ build' = NoBuild
  /\ asset_map' = EmptyMap
  /\ UNCHANGED <<disk, handlers>>

\* The steps of build_asset_map on FolderC, which holds no file to pass
\* over, and the second call.
RebuildNext ==
  \/ ListFiles
  \/ ListFilesFails
  \/ SpawnPackReader
  \/ ReadFileFails
  \/ MergeManifest
  \/ InsertLooseFile
  \/ LoosePassDone
  \/ \E j \in 1..Len(build.tasks) : PackReaderRuns(j)
  \/ FoldPack
  \/ FoldPackFails
  \/ BuildReturns
  \/ Rerun

SpecRebuild == RebuildInit /\ [][RebuildNext]_vars

---------------------------------------------------------------------------
(* Rebuild properties                                                      *)

SecondRunReturned == phase = "built" /\ dec.run = 2

\* C19 as stated: two runs on the same unchanged folder return identical
\* maps (fails: the map follows the order of the walk and the answers of
\* the manifest fetches).
C19_TwoRunsSameMap ==
  SecondRunReturned => asset_map = dec.map

\* C19: two runs on the same unchanged folder whose walks list the files
\* in the same order and whose manifest fetches end the same way return
\* identical maps, however the pack readers are scheduled.
C19_SameWalkSameFetchesSameMap ==
  (/\ SecondRunReturned
   /\ build.files = dec.files
   /\ build.merges = dec.merges) =>
    asset_map = dec.map

C19_Witness ==
  /\ SecondRunReturned
  /\ build.files = dec.files
  /\ build.merges = dec.merges
  /\ asset_map = dec.map
  /\ << <<"m">>, <<"a", ".", "b">> >> \in DOMAIN asset_map
  /\ << <<"d">>, MANIFEST_FILE_NAME >> \in DOMAIN asset_map

---------------------------------------------------------------------------
(* Upstream address properties                                             *)

\* url is addressed to the configured origin, under its assets directory.
UnderOriginAssets(url) ==
  /\ url.ok
  /\ url.scheme = GameServerUrl.scheme
  /\ url.host = GameServerUrl.host
  /\ StartsWith(url.path, <<"/">> \o ASSETS_DIR)

\* C20: every GET the proxy sends upstream, for a request and for a
\* manifest, goes to the configured origin under /assets/ (fails: a request
\* tail that reads as an absolute URL is sent to the host it names).
C20_UpstreamGetsUnderOriginAssets ==
  /\ \A h \in Handlers :
       \A n \in 1..Len(handlers[h].gets) :
         UnderOriginAssets(handlers[h].gets[n])
  /\ \A key \in DOMAIN build.merges :
       build.merges[key].fetch.requested =>
         UnderOriginAssets(build.merges[key].fetch.url)

---------------------------------------------------------------------------
(* Envelope inputs: a body is enveloped, then the envelope is opened       *)

MaxBodyLen == 3

BodyBytes == {0, 120, 255}

RECURSIVE BodiesUpTo(_)
BodiesUpTo(n) ==
  IF n = 0 THEN {<<>>}
  ELSE BodiesUpTo(n - 1)
       \cup {Append(b, x) : b \in {c \in BodiesUpTo(n - 1) : Len(c) = n - 1},
                            x \in BodyBytes}

EnvelopeInit ==
  /\ ServerIdle
  /\ dec \in {[body |-> body, compress |-> compress, stage |-> "read",
               out |-> <<>>, back |-> [ok |-> FALSE, data |-> <<>>]] :
              body \in BodiesUpTo(MaxBodyLen), compress \in BOOLEAN}

\* build_local_asset_response, from the bytes it has read on.
BuildEnvelope ==
  /\ dec.stage = "read"
  /\ dec' = [dec EXCEPT !.stage = "built",
                        !.out = Envelope(dec.body, dec.compress)]
  /\ UNCHANGED <<disk, phase, build, asset_map, handlers>>

\* decompress_asset_response on the body that was built.
OpenEnvelope ==
  /\ dec.stage = "built"
  /\ dec' = [dec EXCEPT !.stage = "opened",
                        !.back = decompress_asset_response(dec.out)]
  /\ UNCHANGED <<disk, phase, build, asset_map, handlers>>

EnvelopeNext == BuildEnvelope \/ OpenEnvelope

SpecEnvelope == EnvelopeInit /\ [][EnvelopeNext]_vars

---------------------------------------------------------------------------
(* Envelope properties                                                     *)

\* C21: a body built with compress = true is the magic a1 b2 c3 d4, the
\* length of the body on four bytes, big-endian, and a zlib stream; opened
\* as decompress_asset_response does, it gives the body back, the empty
\* body included. Without compress the body is sent as it is.
C21_EnvelopeRoundTrip ==
  /\ (dec.stage # "read" /\ dec.compress) =>
       /\ Len(dec.out) > 8
       /\ SubSeq(dec.out, 1, 4) = <<161, 178, 195, 212>>
       /\ SubSeq(dec.out, 5, 8) = <<0, 0, 0, Len(dec.body)>>
       /\ decompress_to_vec_zlib(SubSeq(dec.out, 9, Len(dec.out))).ok
  /\ (dec.stage # "read" /\ ~dec.compress) => dec.out = dec.body
  /\ (dec.stage = "opened" /\ dec.compress) =>
       /\ dec.back.ok
       /\ dec.back.data = dec.body

C21_Witness ==
  /\ dec.stage = "opened"
  /\ dec.compress
  /\ dec.body = <<>>
  /\ dec.back = [ok |-> TRUE, data |-> <<>>]

---------------------------------------------------------------------------
(* Client folder properties                                                *)

\* C22: no step of indexing or of serving writes to the client folder: its
\* content after any sequence of builds, requests and failures is the
\* content it started with.
C22_ClientFolderUnchanged ==
  /\ [](disk \in Folders)
  /\ [][disk' = disk]_vars

C22_Witness ==
  \E h \in Handlers :
    /\ disk = FolderA
    /\ ServedLocally(h)
    /\ handlers[h].opens = << << <<"w", ".">> \o PACK_EXTENSION >> >>
    /\ handlers[h].resp.body = <<190, 239>>

---------------------------------------------------------------------------
(* Pack fold properties                                                    *)

\* The packs of the folder in the order the walk listed them.
PacksInWalkOrder == SelectSeq(build.files, IsPack)

PackAssets(pack) == list_assets_in_pack(disk[pack]).assets

HoldsKey(pack, key) ==
  \E n \in 1..Len(PackAssets(pack)) : Components(PackAssets(pack)[n].name) = key

\* The locator of the first entry named key: first pack of the walk that
\* holds one, first such entry of its directory.
FirstPackEntry(key) ==
  LET packs == PacksInWalkOrder
      j == CHOOSE j \in 1..Len(packs) :
             /\ HoldsKey(packs[j], key)
             /\ \A i \in 1..(j - 1) : ~HoldsKey(packs[i], key)
      assets == PackAssets(packs[j])
      n == CHOOSE n \in 1..Len(assets) :
             /\ Components(assets[n].name) = key
             /\ \A m \in 1..(n - 1) : Components(assets[m].name) # key
  IN  FileLocator(assets[n].crc, packs[j], assets[n].data_offset,
                  assets[n].size)

FromPack(locator) == locator.kind = "File" /\ locator.path \in Packs(disk)

\* C23: among pack entries of one key the first wins, in the order the walk
\* listed the packs and then in directory order, whatever the order in
\* which the pack readers ran and finished; packs are read in the order
\* they were listed, and nothing of a pack enters the map before the
\* loose-file pass has ended.
C23_FirstPackEntryWins ==
  /\ phase = "loose" =>
       /\ build.k = 1
       /\ \A key \in DOMAIN asset_map : ~FromPack(asset_map[key])
  /\ phase \in {"fold", "built"} =>
       /\ Len(build.tasks) = Len(PacksInWalkOrder)
       /\ \A j \in 1..Len(build.tasks) :
            build.tasks[j].path = PacksInWalkOrder[j]
  /\ phase = "built" =>
       \A key \in PackKeys(disk) :
         /\ key \in DOMAIN asset_map
         /\ FromPack(asset_map[key]) => asset_map[key] = FirstPackEntry(key)
         /\ ~FromPack(asset_map[key]) =>
              \/ key \in DOMAIN disk
              \/ asset_map[key].kind = "Memory"

C23_Witness ==
  /\ phase = "built"
  /\ Len(PacksInWalkOrder) = 2
  /\ PacksInWalkOrder[1] = << <<"e", ".">> \o PACK_EXTENSION >>
  /\ build.tasks[1].state = "done"
  /\ asset_map[<< <<"m">>, <<"a", ".", "b">> >>] =
       FileLocator(<<0, 3>>, << <<"e", ".">> \o PACK_EXTENSION >>, 29, 2)

---------------------------------------------------------------------------
(* Two connections served at once                                          *)

PairHandlers == {"h1", "h2"}

\* The wildcards the two connections ask for: a loose file, a pack entry, a
\* synthesized manifest, a name the index does not hold, a path that is
\* rejected and two tails no GET can be sent for.
PairAssets ==
  { <<"u", "/", "l", ".", "d">>,
    <<"m", "/", "a", ".", "b">>,
    <<"d", "/">> \o MANIFEST_FILE_NAME,
    <<"n", ".", "d">>,
    <<".", ".", "/", "s">>,
    <<"h", "t", "t", "p", "s", ":", "/", "/", "o", ":", "b", "/", "x">>,
    <<"x", ":", "y">> }

PairInit ==
  /\ disk = FolderC
  /\ phase = "start"
  /\ build = NoBuild
  /\ asset_map = EmptyMap
  /\ handlers = [h \in PairHandlers |-> IdleHandler]
  /\ dec = NoDecode

\* The steps of prepare_proxy on FolderC, then the handlers of the two
\* connections, each polled whenever it can go on.
PairNext ==
  \/ ListFiles
  \/ ListFilesFails
  \/ SpawnPackReader
  \/ ReadFileFails
  \/ MergeManifest
  \/ InsertLooseFile
  \/ LoosePassDone
  \/ \E j \in 1..Len(build.tasks) : PackReaderRuns(j)
  \/ FoldPack
  \/ FoldPackFails
  \/ BuildReturns
  \/ BindListener
  \/ BindListenerFails
  \/ \E h \in PairHandlers, asset \in PairAssets : Accept(h, asset, NoQuery)
  \/ \E h \in PairHandlers : RejectPath(h)
  \/ \E h \in PairHandlers : ServeMemory(h)
  \/ \E h \in PairHandlers : OpenLocalFile(h)
  \/ \E h \in PairHandlers : LocalMiss(h)
  \/ \E h \in PairHandlers : LocalReadOk(h)
  \/ \E h \in PairHandlers : LocalReadFails(h)
  \/ \E h \in PairHandlers : UpstreamUrlFails(h)
  \/ \E h \in PairHandlers : UpstreamSendFails(h)
  \/ \E h \in PairHandlers : UpstreamSend(h)
  \/ \E h \in PairHandlers : UpstreamReply(h)
  \/ \E h \in PairHandlers : Close(h)

SpecPair == PairInit /\ [][PairNext]_vars

---------------------------------------------------------------------------
(* Isolation properties                                                    *)

\* The bytes the locator stands for in the folder.
LocatorBytes(locator) ==
  IF locator.kind = "Memory" THEN locator.data
  ELSE SubSeq(disk[locator.path], locator.data_offset + 1,
              locator.data_offset + locator.size)

\* The response to the request of h served alone: a function of its own
\* target, of the index and the folder, of how its own read ended and of
\* what its own GET was answered.
AloneResponse(h) ==
  LET name == AssetName(handlers[h].asset)
      output == decompose_extension(name)
      hit == /\ output.name \in DOMAIN asset_map
             /\ output.crc.some => output.crc.v = asset_map[output.name].crc
      url == RemoteUrl(path_and_query(handlers[h].asset, handlers[h].query))
  IN  IF is_invalid_path(name)
      THEN [status |-> BAD_REQUEST, body |-> <<>>, source |-> "rejected"]
      ELSE IF hit /\ handlers[h].builder = "ok"
      THEN [status |-> OK,
            body |-> Envelope(LocatorBytes(asset_map[output.name]),
                              output.compress),
            source |-> "local"]
      ELSE IF ~url.ok
      THEN [status |-> BAD_REQUEST, body |-> <<>>, source |-> "upstream"]
      ELSE IF ~Sendable(url)
      THEN [status |-> INTERNAL_SERVER_ERROR, body |-> <<>>, source |-> "upstream"]
      ELSE [status |-> RemoteResult(handlers[h].reply).status,
            body |-> RemoteResult(handlers[h].reply).data,
            source |-> "upstream"]

BothInFlight ==
  \A h \in PairHandlers : handlers[h].pc \notin {"idle", "done"}

\* C24: with two requests in flight at once, in any interleaving of their
\* steps, a step of one handler changes nothing of the other and nothing of
\* the index or the folder, and each response is the one the request gets
\* when served alone with the same files and the same upstream answer.
C24_HandlerIsolation ==
  /\ [](\A h \in PairHandlers :
          handlers[h].pc = "done" => handlers[h].resp = AloneResponse(h))
  /\ [][phase = "serving" =>
          /\ asset_map' = asset_map
          /\ disk' = disk
          /\ \A h \in PairHandlers :
               handlers'[h] # handlers[h] =>
                 \A g \in PairHandlers \ {h} : handlers'[g] = handlers[g]]_vars

C24_Witness ==
  /\ handlers["h1"].pc = "done"
  /\ handlers["h1"].asset = <<"n", ".", "d">>
  /\ handlers["h1"].resp = [status |-> 404, body |-> <<>>, source |-> "upstream"]
  /\ handlers["h2"].pc = "done"
  /\ handlers["h2"].asset = <<"n", ".", "d">>
  /\ handlers["h2"].resp = [status |-> OK, body |-> <<85>>, source |-> "upstream"]

---------------------------------------------------------------------------
(* Local body properties                                                   *)

\* C25: a local response without compression for a file locator is exactly
\* the size bytes from data_offset of the locator's file, which holds them
\* all; for a Memory locator it is exactly the stored bytes.
C25_LocalBodyContent ==
  \A h \in Handlers :
    (ServedLocally(h) /\ ~handlers[h].decoded.compress) =>
      /\ handlers[h].resp.status = OK
      /\ asset_map[IndexedKey(h)].kind = "Memory" =>
           handlers[h].resp.body = asset_map[IndexedKey(h)].data
      /\ asset_map[IndexedKey(h)].kind = "File" =>
           /\ asset_map[IndexedKey(h)].data_offset + asset_map[IndexedKey(h)].size
                <= Len(disk[asset_map[IndexedKey(h)].path])
           /\ Len(handlers[h].resp.body) = asset_map[IndexedKey(h)].size
           /\ \A n \in 1..asset_map[IndexedKey(h)].size :
                handlers[h].resp.body[n] =
                  disk[asset_map[IndexedKey(h)].path]
                      [asset_map[IndexedKey(h)].data_offset + n]

C25_Witness ==
  \E h \in Handlers :
    /\ ServedLocally(h)
    /\ ~handlers[h].decoded.compress
    /\ asset_map[IndexedKey(h)] =
         FileLocator(<<0, 3>>, << <<"e", ".">> \o PACK_EXTENSION >>, 29, 2)
    /\ handlers[h].resp.body = <<1, 2>>

---------------------------------------------------------------------------
(* Pack reader inputs: list_assets_in_pack, one group per step             *)

MaxGroupsRead == 4

\* A pack whose second group names itself as the next one, and a pack
\* whose third group names the second; their entries have empty bodies.
SelfLoopPack ==
  PackGroup(25, 1, PackEntry(<<"a">>, 0, 0, <<0, 1>>))
  \o PackGroup(25, 1, PackEntry(<<"b">>, 0, 0, <<0, 2>>))

BackLoopPack ==
  PackGroup(25, 1, PackEntry(<<"a">>, 0, 0, <<0, 1>>))
  \o PackGroup(50, 1, PackEntry(<<"b">>, 0, 0, <<0, 2>>))
  \o PackGroup(25, 1, PackEntry(<<"c">>, 0, 0, <<0, 3>>))

PackBases == {"world", "extra", "self", "back"}

BaseBytes(base) ==
  CASE base = "world" -> WorldPack
    [] base = "extra" -> ExtraPack
    [] base = "self" -> SelfLoopPack
    [] base = "back" -> BackLoopPack

\* Positions of a byte inside the name of the first and of the second
\* entry of w.pack.
NameBytes == {13, 35}

\* The pack files read: every pack cut after each of its bytes, and w.pack
\* with a byte of a name that is not valid UTF-8, cut likewise.
PackSamples ==
  {[base |-> base, cut |-> cut, bad |-> 0] :
     base \in {"world"}, cut \in 0..Len(WorldPack)}
  \cup {[base |-> base, cut |-> cut, bad |-> 0] :
          base \in {"extra"}, cut \in 0..Len(ExtraPack)}
  \cup {[base |-> "world", cut |-> cut, bad |-> bad] :
          cut \in 0..Len(WorldPack), bad \in NameBytes}
  \cup {[base |-> "self", cut |-> Len(SelfLoopPack), bad |-> 0],
        [base |-> "back", cut |-> Len(BackLoopPack), bad |-> 0]}

SampleBytes(sample) ==
  LET whole == IF sample.bad = 0 THEN BaseBytes(sample.base)
               ELSE [BaseBytes(sample.base) EXCEPT ![sample.bad] = BadByte]
  IN  SubSeq(whole, 1, sample.cut)

PackInit ==
  /\ ServerIdle
  /\ dec \in {[sample |-> sample, bytes |-> SampleBytes(sample), pos |-> 0,
               visited |-> <<>>, extents |-> <<>>, results |-> <<>>,
               state |-> "opened", err |-> "none"] :
              sample \in PackSamples}

\* A reader that goes on with the byte after the group it has read.
ReadGroupInFileOrder ==
  /\ dec.state = "opened"
  /\ Len(dec.visited) < MaxGroupsRead
  /\ IF ~CanRead(dec.bytes, dec.pos, 8)
     THEN dec' = [dec EXCEPT !.state = "err", !.err = "UnexpectedEof",
                             !.results = <<>>,
                             !.visited = Append(@, dec.pos)]
     ELSE LET next_group_offset == ToNat(ReadU32(dec.bytes, dec.pos))
              files_in_group == ToNat(ReadU32(dec.bytes, dec.pos + 4))
              group == ReadEntries(dec.bytes, dec.pos + 8, files_in_group,
                                   dec.results)
          IN  IF group.err # "none"
              THEN dec' = [dec EXCEPT !.state = "err", !.err = group.err,
                                      !.results = <<>>,
                                      !.visited = Append(@, dec.pos)]
              ELSE dec' = [dec EXCEPT
                     !.state = IF next_group_offset = 0 THEN "ok" ELSE "opened",
                     !.results = group.assets,
                     !.visited = Append(@, dec.pos),
                     !.extents = Append(@, <<dec.pos, group.pos>>),
                     !.pos = group.pos]
  /\ UNCHANGED <<disk, phase, build, asset_map, handlers>>

\* One round of the loop: the header of the group at pos, its entries, and
\* the seek to the next group or the return.
ReadGroup ==
  /\ dec.state = "opened"
  /\ Len(dec.visited) < MaxGroupsRead
  /\ IF ~CanRead(dec.bytes, dec.pos, 8)
     THEN dec' = [dec EXCEPT !.state = "err", !.err = "UnexpectedEof",
                             !.results = <<>>,
                             !.visited = Append(@, dec.pos)]
     ELSE LET next_group_offset == ToNat(ReadU32(dec.bytes, dec.pos))
              files_in_group == ToNat(ReadU32(dec.bytes, dec.pos + 4))
              group == ReadEntries(dec.bytes, dec.pos + 8, files_in_group,
                                   dec.results)
          IN  IF group.err # "none"
              THEN dec' = [dec EXCEPT !.state = "err", !.err = group.err,
                                      !.results = <<>>,
                                      !.visited = Append(@, dec.pos)]
              ELSE dec' = [dec EXCEPT
                     !.state = IF next_group_offset = 0 THEN "ok" ELSE "opened",
                     !.results = group.assets,
                     !.visited = Append(@, dec.pos),
                     !.extents = Append(@, <<dec.pos, group.pos>>),
                     !.pos = IF next_group_offset = 0 THEN group.pos
                             ELSE next_group_offset]
  /\ UNCHANGED <<disk, phase, build, asset_map, handlers>>

PackNext == ReadGroup

SpecPack == PackInit /\ [][PackNext]_vars

---------------------------------------------------------------------------
(* Pack reader properties                                                  *)

PackRecord(name, data_offset, size, crc) ==
  [name |-> name, data_offset |-> data_offset, size |-> size, crc |-> crc]

\* The directory of w.pack and of e.pack as they were written.
WorldRecords ==
  << PackRecord(<<"u", "/", "l", ".", "d">>, 71, 2, <<1, 1>>),
     PackRecord(<<"m", "/", "a", ".", "b">>, 73, 2, <<0, 9>>),
     PackRecord(<<"m", "/", "x", ".", "b">>, 74, 4, <<0, 5>>) >>

ExtraRecords ==
  << PackRecord(<<"m", "/", "a", ".", "b">>, 29, 2, <<0, 3>>),
     PackRecord(<<"d", "/">> \o MANIFEST_FILE_NAME, 29, 1, <<0, 4>>),
     PackRecord(<<"d", "/">> \o MANIFEST_CRC_FILE_NAME, 30, 1, <<0, 6>>),
     PackRecord(<<"m", "/", "a", ".", "b">>, 30, 1, <<0, 7>>) >>

\* The next_group_offset written in the header of the group at pos.
NextOf(pos) == ToNat(ReadU32(dec.bytes, pos))

Whole(sample) == sample.bad = 0 /\ sample.cut = Len(BaseBytes(sample.base))

\* C26: the reader starts at offset 0, reads the header and the entries of
\* one group after the other, goes on at next_group_offset while it is not
\* zero, and returns the entries of the groups of the chain, in chain and
\* directory order, with the fields as written; the bytes it reads are those
\* of the groups alone, never one of an asset body.
C26_PackDirectoryWalk ==
  /\ Len(dec.visited) > 0 => dec.visited[1] = 0
  /\ \A i \in 2..Len(dec.visited) :
       /\ NextOf(dec.visited[i - 1]) # 0
       /\ dec.visited[i] = NextOf(dec.visited[i - 1])
  /\ \A i \in 1..Len(dec.extents) :
       /\ dec.extents[i][1] = dec.visited[i]
       /\ dec.extents[i][1] + 8 <= dec.extents[i][2]
       /\ dec.extents[i][2] <= Len(dec.bytes)
  /\ dec.state = "ok" =>
       /\ NextOf(dec.visited[Len(dec.visited)]) = 0
       /\ Len(dec.extents) = Len(dec.visited)
       /\ \A n \in 1..Len(dec.results) :
            \A p \in dec.results[n].data_offset ..
                     (dec.results[n].data_offset + dec.results[n].size - 1) :
              \A i \in 1..Len(dec.extents) :
                ~(dec.extents[i][1] <= p /\ p < dec.extents[i][2])
  /\ (dec.state = "ok" /\ dec.sample.base = "world") =>
       /\ dec.results = WorldRecords
       /\ dec.extents = << <<0, 71>> >>
  /\ (dec.state = "ok" /\ dec.sample.base = "extra") =>
       /\ dec.results = ExtraRecords
       /\ dec.extents = << <<0, 29>>, <<31, 120>> >>

C26_Witness ==
  /\ dec.state = "ok"
  /\ dec.sample = [base |-> "extra", cut |-> 120, bad |-> 0]
  /\ dec.visited = <<0, 31>>
  /\ Len(dec.results) = 4

\* How the read of a sample ends: w.pack has a directory of 71 bytes, the
\* chain of e.pack ends with byte 120, and a name is judged once its last
\* byte is read (byte 17 for the first entry of w.pack, 38 for the second).
Expected(sample) ==
  CASE sample.base = "world" /\ sample.bad = 0 ->
         IF sample.cut < 71 THEN "UnexpectedEof" ELSE "none"
    [] sample.base = "extra" ->
         IF sample.cut < 120 THEN "UnexpectedEof" ELSE "none"
    [] sample.base = "world" /\ sample.bad = 13 ->
         IF sample.cut < 17 THEN "UnexpectedEof" ELSE "InvalidData"
    [] sample.base = "world" /\ sample.bad = 35 ->
         IF sample.cut < 38 THEN "UnexpectedEof" ELSE "InvalidData"
    [] OTHER -> "never"

\* C27: a pack that ends inside a group header or an entry (the empty pack
\* and a next_group_offset at or past the end included) is answered with
\* UnexpectedEof, a name that is not valid UTF-8 with InvalidData, whichever
\* the reader meets first; an error comes with no records.
C27_PackReaderErrors ==
  /\ dec.state = "err" =>
       /\ dec.err \in {"UnexpectedEof", "InvalidData"}
       /\ dec.results = <<>>
  /\ dec.state = "ok" => dec.err = "none"
  /\ dec.state \in {"ok", "err"} =>
       /\ dec.err = Expected(dec.sample)
       /\ list_assets_in_pack(dec.bytes).err = dec.err
       /\ list_assets_in_pack(dec.bytes).assets = dec.results
  /\ (dec.state = "opened" /\ dec.sample.base \in {"world", "extra"}) =>
       Len(dec.visited) < 2

C27_Witness ==
  /\ dec.state = "err"
  /\ dec.err = "UnexpectedEof"
  /\ dec.sample = [base |-> "extra", cut |-> 31, bad |-> 0]
  /\ dec.visited = <<0, 31>>

\* C28: the reader returns for every finite pack, cyclic chains included:
\* it never starts on a group it has already read (fails: a group whose
\* next_group_offset is its own offset, or an earlier one, is read again and
\* again, its entries appended each time).
C28_ReaderNeverRereadsGroup ==
  \A i, j \in 1..Len(dec.visited) : i # j => dec.visited[i] # dec.visited[j]

---------------------------------------------------------------------------
(* Walker inputs: list_files, one directory per step                       *)

\* What the path given as the client folder is: a directory, nothing, or
\* a regular file.
RootKinds == {"dir", "missing", "file"}

\* The directories of FolderA: the root and its two sub-directories.
WalkDirs == {<<>>, << <<"u">> >>, << <<"d">> >>}

NoWalk ==
  [root |-> "dir", denied |-> {}, directories |-> << <<>> >>,
   files |-> <<>>, read |-> <<>>, state |-> "walking"]

WalkInit ==
  /\ ServerIdle
  /\ dec \in {[NoWalk EXCEPT !.root = root, !.denied = denied] :
              root \in RootKinds, denied \in SUBSET WalkDirs}

\* dir.is_dir(): false for a path that is missing or is no directory.
PathIsDir(dir) == dir # <<>> \/ dec.root = "dir"

Walking == dec.state = "walking" /\ Len(dec.directories) > 0

\* The directory popped is no directory: it is passed over.
SkipNotDirectory ==
  /\ Walking
  /\ ~PathIsDir(Head(dec.directories))
  /\ dec' = [dec EXCEPT !.directories = Tail(@)]
  /\ UNCHANGED <<disk, phase, build, asset_map, handlers>>

\* read_dir fails on the directory popped: the walk ends with the error.
ReadDirFails ==
  /\ Walking
  /\ PathIsDir(Head(dec.directories))
  /\ Head(dec.directories) \in dec.denied
  /\ dec' = [dec EXCEPT !.state = "err", !.directories = <<>>, !.files = <<>>]
  /\ UNCHANGED <<disk, phase, build, asset_map, handlers>>

\* The entries of the directory popped, in the order read_dir yields them:
\* directories to the back of the queue, the others to the list.
ReadDirectory ==
  /\ Walking
  /\ PathIsDir(Head(dec.directories))
  /\ Head(dec.directories) \notin dec.denied
  /\ \E entries \in Perms(DirEntries(disk, Head(dec.directories))) :
       dec' = [dec EXCEPT
         !.directories = Tail(@) \o SelectEntries(disk, entries, TRUE),
         !.files = @ \o SelectEntries(disk, entries, FALSE),
         !.read = Append(@, Head(dec.directories))]
  /\ UNCHANGED <<disk, phase, build, asset_map, handlers>>

\* The queue is empty: the list is returned.
WalkReturns ==
  /\ dec.state = "walking"
  /\ Len(dec.directories) = 0
  /\ dec' = [dec EXCEPT !.state = "ok"]
  /\ UNCHANGED <<disk, phase, build, asset_map, handlers>>

WalkNext ==
  \/ SkipNotDirectory
  \/ ReadDirFails
  \/ ReadDirectory
  \/ WalkReturns

SpecWalk == WalkInit /\ [][WalkNext]_vars

---------------------------------------------------------------------------
(* Walker properties                                                       *)

\* C29: a walk that returns a list has read the root and every directory
\* under it, and lists every file under the root exactly once; a root that
\* cannot be read ends the walk with an error (fails: a root that is
\* missing, or is no directory, gives the empty list).
C29_WalkListsAllOrFails ==
  dec.state = "ok" =>
    /\ dec.root = "dir"
    /\ dec.denied = {}
    /\ {dec.files[n] : n \in 1..Len(dec.files)} = DOMAIN disk
    /\ \A m, n \in 1..Len(dec.files) : m # n => dec.files[m] # dec.files[n]
    /\ {dec.read[n] : n \in 1..Len(dec.read)} = WalkDirs

---------------------------------------------------------------------------
(* File access properties                                                  *)

\* The paths the index holds in its file locators.
LocatorPaths ==
  {asset_map[key].path :
     key \in {k \in DOMAIN asset_map : asset_map[k].kind = "File"}}

\* C30: a handler opens only the file of the locator its request resolved
\* to, a loose file or a pack that the walk listed under the client folder;
\* a request that is rejected, not indexed or refused by the CRC gate opens
\* nothing, and no path is formed from the request.
C30_FileAccessConfinement ==
  /\ LocatorPaths \subseteq DOMAIN disk
  /\ \A h \in Handlers :
       /\ Len(handlers[h].opens) <= 1
       /\ \A n \in 1..Len(handlers[h].opens) :
            /\ handlers[h].opens[n] \in LocatorPaths
            /\ handlers[h].opens[n] \in DOMAIN disk
            /\ Indexed(h)
            /\ handlers[h].opens[n] = asset_map[IndexedKey(h)].path
       /\ (handlers[h].invalid \/ ~Indexed(h)) => handlers[h].opens = <<>>

C30_Witness ==
  \E h \in Handlers :
    /\ ServedLocally(h)
    /\ handlers[h].asset = <<"0", "4", "2", "/", "u", "/", "l", ".", "d">>
    /\ handlers[h].opens = <<LogoKey>>

---------------------------------------------------------------------------
(* The host: start_client and the stored task pair (main.rs)               *)

CLIENT_CONFIG_PATH == "ClientConfig.ini"
USER_OPTIONS_PATH == "UserOptions.ini"
ACTIVE_CLIENT_EXECUTABLE == "CloneWars.exe"

\* The front end may invoke start_client while an earlier invocation is
\* still awaiting: two invocations can be in flight.
Callers == {"first", "second"}

\* The invocations made in one run of the host.
MaxCalls == 3

\* The clients of the settings, by version, and a version they do not hold.
Versions == {"v1", "v2"}
UnknownVersion == "v0"

\* The files next to a client executable.
ClientParentFiles ==
  {ACTIVE_CLIENT_EXECUTABLE, CLIENT_CONFIG_PATH, USER_OPTIONS_PATH,
   "Assets_000.pack", "Assets_W_000.pack"}

WebDownloadedPacks == {"Assets_W_000.pack"}

is_web_downloaded_pack(file_name) == file_name \in WebDownloadedPacks

should_copy(file_name) ==
  /\ file_name # ACTIVE_CLIENT_EXECUTABLE
  /\ file_name # CLIENT_CONFIG_PATH
  /\ file_name # USER_OPTIONS_PATH
  /\ ~is_web_downloaded_pack(file_name)

client_files_to_copy == {f \in ClientParentFiles : should_copy(f)}

\* The files of the active client folder and what each holds.
ActiveFiles ==
  {ACTIVE_CLIENT_EXECUTABLE, USER_OPTIONS_PATH, CLIENT_CONFIG_PATH}
    \cup client_files_to_copy

Absent == "absent"
UserOptionsTemplate == "template"
ProxyAddresses == "127.0.0.1:4001"

EmptyActiveClient == [f \in ActiveFiles |-> Absent]

\* prepare_client writes in four stages, each of which can fail and end it:
\* the executable, the client files, UserOptions.ini when it is missing, and
\* ClientConfig.ini.  `completed' is the number of stages that succeeded.
PrepareStages == 0..4

\* The files prepare_client has written after `completed' stages.
prepare_client_writes(active, completed) ==
  (IF completed >= 1 THEN {ACTIVE_CLIENT_EXECUTABLE} ELSE {})
    \cup (IF completed >= 2 THEN client_files_to_copy ELSE {})
    \cup (IF completed >= 3 /\ active[USER_OPTIONS_PATH] = Absent
            THEN {USER_OPTIONS_PATH} ELSE {})
    \cup (IF completed >= 4 THEN {CLIENT_CONFIG_PATH} ELSE {})

\* The active client folder after prepare_client got through `completed'
\* stages for the client of version `version'.
prepare_client(active, version, completed) ==
  [f \in ActiveFiles |->
     IF f \notin prepare_client_writes(active, completed) THEN active[f]
     ELSE IF f = USER_OPTIONS_PATH THEN UserOptionsTemplate
     ELSE IF f = CLIENT_CONFIG_PATH THEN ProxyAddresses
     ELSE version]

prepare_client_ok(completed) == completed = 4

\* The results of start_client.
GameAlreadyRunning == "Game is already running"
UnknownVersionError == "Requested client version that does not exist"
BadEndpointError == "bad HTTPS endpoint"
IoError == "io error"
StartOk == "Ok"
NoResult == "none"

NoPair == [proxy |-> 0, client |-> 0]

IdleCall == [pc |-> "idle", wrote |-> {}, result |-> NoResult]

\* GlobalState after setup: no task pair stored, no invocation in flight.
HostStart ==
  [proxy_process |-> NoPair,
   proxies |-> <<>>,
   clients |-> <<>>,
   lock |-> "free",
   active_client |-> EmptyActiveClient,
   calls |-> [c \in Callers |-> IdleCall],
   made |-> 0]

HostInit ==
  /\ ServerIdle
  /\ dec = HostStart

\* The stored client task has not finished.
PreviousRunning(d) ==
  /\ d.proxy_process # NoPair
  /\ d.clients[d.proxy_process.client] = "running"

\* proxy_process.lock().await returns once no other invocation holds it.
LockNeverHeld(d) == TRUE

LockAvailable(d) == d.lock = "free"

\* The first block of start_client, run under the settings lock: look up the
\* client, prepare the active client folder, parse the endpoint.
StartClientSettings(c) ==
  /\ dec.calls[c].pc = "idle"
  /\ dec.made < MaxCalls
  /\ \E version \in Versions \cup {UnknownVersion},
        completed \in PrepareStages, endpoint_ok \in BOOLEAN :
       IF version = UnknownVersion
         THEN dec' = [dec EXCEPT !.made = @ + 1,
                        !.calls[c] = [pc |-> "idle", wrote |-> {},
                                      result |-> UnknownVersionError]]
         ELSE
           LET written == prepare_client_writes(dec.active_client, completed)
               result == IF ~prepare_client_ok(completed) THEN IoError
                         ELSE IF ~endpoint_ok THEN BadEndpointError
                         ELSE NoResult
           IN dec' = [dec EXCEPT !.made = @ + 1,
                        !.active_client =
                           prepare_client(dec.active_client, version,
                                          completed),
                        !.calls[c] =
                           [pc |-> IF result = NoResult THEN "waiting"
                                   ELSE "idle",
                            wrote |-> written,
                            result |-> result]]
  /\ UNCHANGED <<disk, phase, build, asset_map, handlers>>

\* The task pair is locked and the previous client is examined: while it
\* runs the invocation returns its error, otherwise the previous proxy is
\* aborted and the invocation goes on holding the lock.
StartClientCheck(c) ==
  /\ dec.calls[c].pc = "waiting"
  /\ LockAvailable(dec)
  /\ IF PreviousRunning(dec)
       THEN dec' = [dec EXCEPT !.calls[c].pc = "idle",
                      !.calls[c].result = GameAlreadyRunning]
       ELSE dec' = [dec EXCEPT !.calls[c].pc = "preparing",
                      !.lock = c,
                      !.proxies =
                         IF dec.proxy_process = NoPair THEN @
                         ELSE [@ EXCEPT ![dec.proxy_process.proxy] =
                                           "aborted"]]
  /\ UNCHANGED <<disk, phase, build, asset_map, handlers>>

\* prepare_proxy fails: the invocation returns its error and the lock.
StartClientProxyFails(c) ==
  /\ dec.calls[c].pc = "preparing"
  /\ dec' = [dec EXCEPT !.calls[c].pc = "idle",
               !.calls[c].result = IoError,
               !.lock = IF @ = c THEN "free" ELSE @]
  /\ UNCHANGED <<disk, phase, build, asset_map, handlers>>

\* prepare_proxy succeeds: the proxy and the client are spawned and stored
\* as the new pair, and the lock is returned.
StartClientLaunch(c) ==
  /\ dec.calls[c].pc = "preparing"
  /\ dec' = [dec EXCEPT !.calls[c].pc = "idle",
               !.calls[c].result = StartOk,
               !.proxies = Append(@, "running"),
               !.clients = Append(@, "running"),
               !.proxy_process = [proxy |-> Len(dec.proxies) + 1,
                                  client |-> Len(dec.clients) + 1],
               !.lock = IF @ = c THEN "free" ELSE @]
  /\ UNCHANGED <<disk, phase, build, asset_map, handlers>>

\* The blocking client task ends: the game could not be started, or it was
\* started and has exited.
ClientFinishes ==
  /\ \E n \in 1..Len(dec.clients) :
       /\ dec.clients[n] = "running"
       /\ dec' = [dec EXCEPT !.clients[n] = "finished"]
  /\ UNCHANGED <<disk, phase, build, asset_map, handlers>>

HostNext ==
  \/ \E c \in Callers : StartClientSettings(c)
  \/ \E c \in Callers : StartClientCheck(c)
  \/ \E c \in Callers : StartClientProxyFails(c)
  \/ \E c \in Callers : StartClientLaunch(c)
  \/ ClientFinishes

SpecHost == HostInit /\ [][HostNext]_vars

---------------------------------------------------------------------------
(* Host lifecycle properties                                               *)

RunningClients ==
  {n \in 1..Len(dec.clients) : dec.clients[n] = "running"}

LiveProxies ==
  {n \in 1..Len(dec.proxies) : dec.proxies[n] = "running"}

\* An invocation holds the lock only over a pair whose client has finished
\* and whose proxy it has aborted.
PreviousStopped ==
  \A c \in Callers :
    dec.calls[c].pc = "preparing" =>
      \/ dec.proxy_process = NoPair
      \/ /\ dec.proxies[dec.proxy_process.proxy] = "aborted"
         /\ dec.clients[dec.proxy_process.client] = "finished"

\* What the examination of the previous pair may do.
CheckStep ==
  \A c \in Callers :
    (dec.calls[c].pc = "waiting" /\ dec'.calls[c].pc # "waiting") =>
      IF PreviousRunning(dec)
        THEN /\ dec'.calls[c].pc = "idle"
             /\ dec'.calls[c].result = GameAlreadyRunning
             /\ dec'.proxies = dec.proxies
             /\ dec'.clients = dec.clients
             /\ dec'.proxy_process = dec.proxy_process
        ELSE /\ dec'.calls[c].pc = "preparing"
             /\ Len(dec'.proxies) = Len(dec.proxies)
             /\ dec'.clients = dec.clients
             /\ dec.proxy_process # NoPair =>
                  dec'.proxies[dec.proxy_process.proxy] = "aborted"

C32_GameRunningLeavesStateUnchanged ==
  [][\A c \in Callers :
       (/\ dec.calls[c].pc = "waiting"
        /\ dec'.calls[c].pc = "idle"
        /\ dec'.calls[c].result = GameAlreadyRunning) =>
         /\ dec'.proxies = dec.proxies
         /\ dec'.proxy_process = dec.proxy_process
         /\ dec.calls[c].wrote = {}]_vars

===========================================================================
